---- MODULE Spec2Model ----
(***************************************************************************)
(* Disco packet capture over AF_PACKET sockets with a BPF filter           *)
(* (magicsock, Linux): listenDisco, listenPacketsWithFilter,               *)
(* handleIPv4Disco, handleIPv6Disco and bpfFilter.ApplyTo, together with   *)
(* the kernel's evaluation of the attached classic-BPF program on every    *)
(* arriving frame.                                                         *)
(*                                                                         *)
(* Bytes are integers 0..255 and a frame is a sequence of bytes.  32-bit   *)
(* values (the BPF accumulator, instruction operands, return values) are   *)
(* pairs <<high 16 bits, low 16 bits>> so that they keep their width.      *)
(***************************************************************************)
EXTENDS Integers, Sequences, FiniteSets, TLC

\* ------------------------------------------------------------------ bounds
\* Total number of frame arrivals (over both sockets) in one behaviour.
MaxArrivals == 2
\* Capacity of one socket's receive queue, in frames.
MaxQueue == 2

\* --------------------------------------------------------- program constants
ethHeaderSize == 14
udpHeaderSize == 8
\* len(sockBuf): make([]byte, 65535)
SockBufSize == 65535
\* ipproto.UDP
ipprotoUDP == 17
\* disco.Magic = "TS" + the UTF-8 encoding of U+1F4AC
DiscoMagic == <<84, 83, 240, 159, 146, 172>>

Fam == {4, 6}

\* ------------------------------------------------------------ byte helpers
Min(a, b) == IF a <= b THEN a ELSE b

RECURSIVE BitAnd(_, _)
BitAnd(a, b) ==
    IF a = 0 \/ b = 0 THEN 0
    ELSE (a % 2) * (b % 2) + 2 * BitAnd(a \div 2, b \div 2)

\* A 32-bit value from an integer below 2^16.
U32(v) == <<0, v>>

\* binary.BigEndian.Uint16 of the two bytes b[1], b[2].
BigEndianUint16(b) == b[1] * 256 + b[2]

\* binary.BigEndian.Uint32 of the four bytes b[1..4], as <<high, low>>.
BigEndianUint32(b) == <<b[1] * 256 + b[2], b[3] * 256 + b[4]>>

\* The byte order a host-order (little-endian) conversion would give.
LittleEndianUint32(b) == <<b[4] * 256 + b[3], b[2] * 256 + b[1]>>

\* ------------------------------------------------------------ BPF programs
LoadAbsolute(off, size) == [op |-> "LoadAbsolute", Off |-> off, Size |-> size]
LoadIndirect(off, size) == [op |-> "LoadIndirect", Off |-> off, Size |-> size]
LoadMemShift(off) == [op |-> "LoadMemShift", Off |-> off]
JumpIf(cond, val, st, sf) ==
    [op |-> "JumpIf", Cond |-> cond, Val |-> val, SkipTrue |-> st, SkipFalse |-> sf]
RetConstant(val) == [op |-> "RetConstant", Val |-> val]

RetAccept == <<65535, 65535>>
RetReject == <<0, 0>>

\* The kernel's packet load: size bytes at offset off (0-based), big-endian.
LoadOK(pkt, off, size) == off >= 0 /\ off + size <= Len(pkt)
LoadBE(pkt, off, size) ==
    IF size = 1 THEN U32(pkt[off + 1])
    ELSE IF size = 2 THEN U32(pkt[off + 1] * 256 + pkt[off + 2])
    ELSE <<pkt[off + 1] * 256 + pkt[off + 2], pkt[off + 3] * 256 + pkt[off + 4]>>

JumpTaken(cond, A, val) ==
    IF cond = "JumpEqual" THEN A = val
    ELSE \* JumpBitsSet
        BitAnd(A[1], val[1]) # 0 \/ BitAnd(A[2], val[2]) # 0

\* Evaluation of a classic-BPF program on a packet: i is the 0-based index of
\* the next instruction, A the accumulator, X the index register.  A load
\* beyond the end of the packet ends the program with 0.
RECURSIVE ExecBPF(_, _, _, _, _)
ExecBPF(prog, pkt, i, A, X) ==
    IF i >= Len(prog) THEN RetReject
    ELSE LET ins == prog[i + 1] IN
         CASE ins.op = "LoadAbsolute" ->
                IF LoadOK(pkt, ins.Off, ins.Size)
                THEN ExecBPF(prog, pkt, i + 1, LoadBE(pkt, ins.Off, ins.Size), X)
                ELSE RetReject
           [] ins.op = "LoadIndirect" ->
                IF LoadOK(pkt, X + ins.Off, ins.Size)
                THEN ExecBPF(prog, pkt, i + 1, LoadBE(pkt, X + ins.Off, ins.Size), X)
                ELSE RetReject
           [] ins.op = "LoadMemShift" ->
                IF LoadOK(pkt, ins.Off, 1)
                THEN ExecBPF(prog, pkt, i + 1, A, 4 * (pkt[ins.Off + 1] % 16))
                ELSE RetReject
           [] ins.op = "JumpIf" ->
                IF JumpTaken(ins.Cond, A, ins.Val)
                THEN ExecBPF(prog, pkt, i + 1 + ins.SkipTrue, A, X)
                ELSE ExecBPF(prog, pkt, i + 1 + ins.SkipFalse, A, X)
           [] ins.op = "RetConstant" -> ins.Val

RunBPF(prog, pkt) == ExecBPF(prog, pkt, 0, RetReject, 0)

\* The IPv4 program with its two marker constants.
FilterV4With_ProtocolOnly(magic1, magic2) ==
    << LoadAbsolute(12, 2),
       JumpIf("JumpEqual", U32(2048), 0, 3),
       LoadAbsolute(ethHeaderSize + 9, 1),
       JumpIf("JumpEqual", U32(ipprotoUDP), 0, 1),
       RetConstant(RetAccept),
       RetConstant(RetReject) >>

FilterV4With_ShortFirstSkip(magic1, magic2) ==
    << LoadAbsolute(12, 2),
       JumpIf("JumpEqual", U32(2048), 0, 9),
       LoadAbsolute(ethHeaderSize + 9, 1),
       JumpIf("JumpEqual", U32(ipprotoUDP), 0, 8),
       LoadAbsolute(ethHeaderSize + 6, 2),
       JumpIf("JumpBitsSet", U32(8191), 6, 0),
       LoadMemShift(ethHeaderSize + 0),
       LoadIndirect(ethHeaderSize + udpHeaderSize, 4),
       JumpIf("JumpEqual", magic1, 0, 3),
       LoadIndirect(ethHeaderSize + udpHeaderSize + 4, 2),
       JumpIf("JumpEqual", U32(magic2), 0, 1),
       RetConstant(RetAccept),
       RetConstant(RetReject) >>

FilterV4With(magic1, magic2) ==
    << LoadAbsolute(12, 2),
       JumpIf("JumpEqual", U32(2048), 0, 10),
       LoadAbsolute(ethHeaderSize + 9, 1),
       JumpIf("JumpEqual", U32(ipprotoUDP), 0, 8),
       LoadAbsolute(ethHeaderSize + 6, 2),
       JumpIf("JumpBitsSet", U32(8191), 6, 0),
       LoadMemShift(ethHeaderSize + 0),
       LoadIndirect(ethHeaderSize + udpHeaderSize, 4),
       JumpIf("JumpEqual", magic1, 0, 3),
       LoadIndirect(ethHeaderSize + udpHeaderSize + 4, 2),
       JumpIf("JumpEqual", U32(magic2), 0, 1),
       RetConstant(RetAccept),
       RetConstant(RetReject) >>

magicsockFilterV4_LittleEndian(m) ==
    FilterV4With(LittleEndianUint32(SubSeq(m, 1, 4)), BigEndianUint16(SubSeq(m, 5, 6)))

magicsockFilterV4(m) ==
    FilterV4With(BigEndianUint32(SubSeq(m, 1, 4)), BigEndianUint16(SubSeq(m, 5, 6)))

magicsockFilterV6_AcceptAll == << RetConstant(RetAccept) >>

magicsockFilterV6 == << RetConstant(RetReject) >>

zeroFilter_GuardAndReturn == << LoadAbsolute(12, 2), RetConstant(RetReject) >>

zeroFilter_AcceptAll == << RetConstant(RetAccept) >>

zeroFilter == << RetConstant(RetReject) >>


\* ------------------------------------------------------------------ frames
U16Bytes(v) == <<v \div 256, v % 256>>

Repeat(b, k) == [i \in 1..k |-> b]

\* The bytes of an Ethernet frame described by d: ethertype d.eth, an IPv4
\* header whose first byte carries the header-length nibble d.ihl (the header
\* is laid out with 4*ihl bytes, at least 20), flags/fragment field d.frag,
\* protocol d.proto, source address d.src, then a UDP header with source
\* port d.sport and declared length d.ulen, the payload d.payload, the
\* link-layer trailer d.trailer; the frame is cut to at most d.cut bytes.
IPHeaderBytes(d) == IF d.ihl >= 5 THEN 4 * d.ihl ELSE 20

FullFrame(d) ==
    <<2, 2, 2, 2, 2, 2, 4, 4, 4, 4, 4, 4>> \o U16Bytes(d.eth)
    \o <<64 + d.ihl, 0>> \o U16Bytes(IPHeaderBytes(d) + udpHeaderSize + Len(d.payload))
    \o <<0, 0>> \o U16Bytes(d.frag) \o <<64, d.proto, 0, 0>>
    \o d.src \o <<10, 0, 0, 99>> \o Repeat(1, IPHeaderBytes(d) - 20)
    \o U16Bytes(d.sport) \o U16Bytes(41641) \o U16Bytes(d.ulen) \o <<0, 0>>
    \o d.payload \o d.trailer

Build(d) == SubSeq(FullFrame(d), 1, Min(d.cut, Len(FullFrame(d))))

Desc(eth, proto, frag, ihl, src, sport, ulen, payload, trailer, cut) ==
    [eth |-> eth, proto |-> proto, frag |-> frag, ihl |-> ihl, src |-> src,
     sport |-> sport, ulen |-> ulen, payload |-> payload, trailer |-> trailer,
     cut |-> cut]

\* m with byte i (1-based) changed.
Alter(m, i) == [m EXCEPT ![i] = (m[i] + 1) % 256]

\* -------------------------------------------------------------- Go slices
\* A slice of sockBuf: offset into the buffer, length, capacity.
GoSlice(off, len, cap) == [off |-> off, len |-> len, cap |-> cap]

\* s[lo:] is in range iff lo <= len(s); s[lo:hi] iff lo <= hi <= cap(s).
SliceFromOK(s, lo) == 0 <= lo /\ lo <= s.len
SliceFrom(s, lo) == GoSlice(s.off + lo, s.len - lo, s.cap - lo)
SliceOK(s, lo, hi) == 0 <= lo /\ lo <= hi /\ hi <= s.cap
Slice(s, lo, hi) == GoSlice(s.off + lo, hi - lo, s.cap - lo)
IndexOK(s, i) == 0 <= i /\ i < s.len

\* The buffer is SockBufSize bytes, zeroed by make; buf holds the part of it
\* that reads have written so far.
BufAt(buf, i) == IF i < Len(buf) THEN buf[i + 1] ELSE 0
SliceBytes(buf, s) == [i \in 1..s.len |-> BufAt(buf, s.off + i - 1)]

\* What Recvfrom leaves in the buffer after writing the n bytes of pkt.
BufAfterRead(buf, pkt) == pkt \o SubSeq(buf, Len(pkt) + 1, Len(buf))

GoPanic == [panic |-> TRUE, src |-> <<>>, packetData |-> <<>>]

\* The payload slice's upper bound, in uint16 arithmetic.
PayloadEnd(dataLen) == (udpHeaderSize + dataLen) % 65536

\* The parsing done by handleIPv4Disco on packet = sockBuf[:n]: the source
\* address and port and the payload it hands to handleDiscoMessage, or a
\* run-time panic where a slice or index expression is out of range.
DecodeIPv4(buf, n) ==
    LET packet == GoSlice(0, n, SockBufSize) IN
    IF ~SliceFromOK(packet, ethHeaderSize) THEN GoPanic ELSE
    LET ipPacket == SliceFrom(packet, ethHeaderSize) IN
    IF ~IndexOK(ipPacket, 0) THEN GoPanic ELSE
    LET ipHdrLen == (4 * (BufAt(buf, ipPacket.off) % 16)) % 256 IN
    IF ~SliceOK(ipPacket, 12, 16) THEN GoPanic ELSE
    LET srcAddr == SliceBytes(buf, Slice(ipPacket, 12, 16)) IN
    IF ~SliceFromOK(ipPacket, ipHdrLen) THEN GoPanic ELSE
    LET udpPacket == SliceFrom(ipPacket, ipHdrLen) IN
    IF ~SliceOK(udpPacket, 0, 2) \/ ~SliceOK(udpPacket, 4, 6) THEN GoPanic ELSE
    LET srcPort == BigEndianUint16(SliceBytes(buf, Slice(udpPacket, 0, 2)))
        dataLen == BigEndianUint16(SliceBytes(buf, Slice(udpPacket, 4, 6)))
    IN
    IF ~SliceOK(udpPacket, udpHeaderSize, PayloadEnd(dataLen)) THEN GoPanic ELSE
    [panic |-> FALSE,
     src |-> <<srcAddr, srcPort>>,
     packetData |-> SliceBytes(buf, Slice(udpPacket, udpHeaderSize, PayloadEnd(dataLen)))]


\* ------------------------------------------------------------------- state
VARIABLES
    Magic,      \* disco.Magic, the marker bytes
    ldPc,       \* position of listenDisco
    sock,       \* per family: the raw socket, "none" | "open" | "failed" | "closed"
    filt,       \* per family: the program attached to the socket (<<>>: none)
    queue,      \* per family: the socket's receive queue
    pc,         \* per family: position of the listenPacketsWithFilter goroutine
    err,        \* per family: the error listenPacketsWithFilter returned ("": none)
    sockBuf,    \* per family: the written part of sockBuf
    nDrain,     \* per family: nDrain
    metricRecvDiscoPacketIPv4,
    metricRecvDiscoPacketInvalidIPv4,
    logs,       \* messages passed to c.logf
    panicked,   \* a goroutine panicked: the process is gone
    arrivals,   \* number of frames that have arrived so far
    lastArr,    \* per family: the last arriving frame and the filter's verdict
    applies,    \* per family: the ApplyTo calls made, in order
    reads,      \* per family: number of Recvfrom calls completed, by kind
    cbLog,      \* per family: the callback invocations, in order
    rt,         \* the route table check: one call of getRouteTable
    rmsg,       \* one call of routeEntryFromMsg: the message and the result
    ssh,        \* runSSHSession: its position, the terminal, observer, listener
    dns,        \* one call of DNSServers: the command results and the result
    bug,        \* one call of runBugReport: the arguments and what it did
    tool        \* the standalone capture tool (bpftest): run and its socket

\* The state of the programs that share nothing with the capture sessions.
otherVars == <<rt, rmsg, ssh, dns, bug, tool>>

\* The state of listenDisco, its sessions and their sockets.
captureVars == <<Magic, ldPc, sock, filt, queue, pc, err, sockBuf, nDrain,
                 metricRecvDiscoPacketIPv4, metricRecvDiscoPacketInvalidIPv4, logs,
                 panicked, arrivals, lastArr, applies, reads, cbLog>>

vars == <<Magic, ldPc, sock, filt, queue, pc, err, sockBuf, nDrain,
          metricRecvDiscoPacketIPv4, metricRecvDiscoPacketInvalidIPv4, logs,
          panicked, arrivals, lastArr, applies, reads, cbLog, otherVars>>

\* No call of getRouteTable is under way.
RtIdle == [max |-> 0, routes |-> <<>>, called |-> FALSE, ret |-> <<>>]

\* No call of routeEntryFromMsg is under way.
RmIdle == [called |-> FALSE]

\* runSSHSession has not been called.
SshIdle ==
    [pc |-> "idle", termDisposed |-> FALSE, resizeObserver |-> "undefined",
     handleBeforeUnload |-> FALSE, listening |-> FALSE, onDataHook |-> FALSE,
     done |-> FALSE, callerDone |-> 0, closeCalls |-> 0, resizeCalls |-> 0,
     unloads |-> 0, written |-> 0]

\* No call of DNSServers is under way.
DnsIdle == [called |-> FALSE]

\* No call of runBugReport is under way.
BugIdle == [called |-> FALSE]

\* The capture tool has not been started.
ToolIdle ==
    [pc |-> "idle", sock |-> "none", filt |-> <<>>, queue |-> <<>>, nDrain |-> 0,
     sockBuf |-> <<>>, applies |-> <<>>, reads |-> [drain |-> 0, recv |-> 0],
     arrivals |-> 0, decoded |-> <<>>, err |-> ""]

\* None of the programs added after the route table check is under way.
UtilitiesIdle == ssh = SshIdle /\ dns = DnsIdle /\ bug = BugIdle /\ tool = ToolIdle

NoArrival == [pkt |-> <<>>, ret |-> RetReject, phase |-> "never"]

\* Which program is attached to family f's socket.
Phase(f) ==
    IF filt[f] = <<>> THEN "unfiltered"
    ELSE IF \E i \in 1..Len(applies[f]) : applies[f][i] = [which |-> "real", ok |-> TRUE]
         THEN "real" ELSE "zero"

\* The program listenDisco passes to family f's session.
RealFilter(f) == IF f = 4 THEN magicsockFilterV4(Magic) ELSE magicsockFilterV6

CreateErrMsg(f) ==
    IF f = 4 THEN "error creating raw socket for IPv4"
    ELSE "error creating raw socket for IPv6"

ListenErrMsg(f) ==
    IF f = 4 THEN "error listening for IPv4 disco packets with AF_PACKET"
    ELSE "error listening for IPv6 disco packets with AF_PACKET"

\* The outcomes of handleDiscoMessage: whether the payload was recognised.
HandleDiscoMessageResults == BOOLEAN

InitCommon ==
    /\ queue = [f \in Fam |-> <<>>]
    /\ err = [f \in Fam |-> ""]
    /\ sockBuf = [f \in Fam |-> <<>>]
    /\ nDrain = [f \in Fam |-> 0]
    /\ metricRecvDiscoPacketIPv4 = 0
    /\ metricRecvDiscoPacketInvalidIPv4 = 0
    /\ logs = {}
    /\ panicked = FALSE
    /\ arrivals = 0
    /\ lastArr = [f \in Fam |-> NoArrival]
    /\ cbLog = [f \in Fam |-> <<>>]

\* ------------------------------------------------------------- listenDisco
\* The length check on disco.Magic; the two programs are values computed
\* from Magic (magicsockFilterV4, magicsockFilterV6).
listenDiscoBegin ==
    /\ ~panicked
    /\ ldPc = "begin"
    /\ IF Len(Magic) # 6
       THEN /\ panicked' = TRUE
            /\ ldPc' = "panicked"
       ELSE /\ ldPc' = "socket4"
            /\ UNCHANGED panicked
    /\ UNCHANGED <<otherVars, Magic, sock, filt, queue, pc, err, sockBuf, nDrain,
                   metricRecvDiscoPacketIPv4, metricRecvDiscoPacketInvalidIPv4,
                   logs, arrivals, lastArr, applies, reads, cbLog>>

\* Where listenDisco goes after family f's socket call, whatever its result.
AfterSocket_ReturnOnError(f, ok) ==
    IF ~ok THEN "done" ELSE IF f = 4 THEN "socket6" ELSE "done"

AfterSocket(f, ok) == IF f = 4 THEN "socket6" ELSE "done"

\* Whether listenDisco has got past the statement that started family g's
\* session: a go statement returns at once, whatever the new goroutine does.
GoStatementReturned_WhenSessionEnds(g) == pc[g] \in {"idle", "returned"}

GoStatementReturned(g) == TRUE

\* unix.Socket for family f, then either the go statement that starts the
\* family's session or the log line.
listenDiscoSocket(f) ==
    /\ ~panicked
    /\ ldPc = (IF f = 4 THEN "socket4" ELSE "socket6")
    /\ \A g \in Fam : g < f => GoStatementReturned(g)
    /\ \E ok \in BOOLEAN :
        /\ IF ok
           THEN /\ sock' = [sock EXCEPT ![f] = "open"]
                /\ pc' = [pc EXCEPT ![f] = "applyZero"]
                /\ UNCHANGED logs
           ELSE /\ sock' = [sock EXCEPT ![f] = "failed"]
                /\ logs' = logs \cup {CreateErrMsg(f)}
                /\ UNCHANGED pc
        /\ ldPc' = AfterSocket(f, ok)
    /\ UNCHANGED <<otherVars, Magic, filt, queue, err, sockBuf, nDrain,
                   metricRecvDiscoPacketIPv4, metricRecvDiscoPacketInvalidIPv4,
                   panicked, arrivals, lastArr, applies, reads, cbLog>>

\* ------------------------------------------------------------- environment
\* What the kernel puts on the queue for a frame on which the attached
\* program returned ret: the first ret bytes of it.
Snap(pkt, ret) == IF ret[1] > 0 THEN pkt ELSE SubSeq(pkt, 1, Min(ret[2], Len(pkt)))

\* The verdict on a frame arriving at family f's socket: without a program
\* every frame is accepted whole.
Verdict_IgnoresProgram(f, pkt) == RetAccept

Verdict(f, pkt) == IF filt[f] = <<>> THEN RetAccept ELSE RunBPF(filt[f], pkt)

\* A frame arrives at family f's socket: the kernel evaluates the attached
\* program and enqueues the frame unless the verdict is 0 or the queue is full.
Arrive(f, pkt) ==
    /\ ~panicked
    /\ sock[f] = "open"
    /\ arrivals' = arrivals + 1
    /\ LET ret == Verdict(f, pkt) IN
        /\ lastArr' = [lastArr EXCEPT ![f] = [pkt |-> pkt, ret |-> ret, phase |-> Phase(f)]]
        /\ IF ret # RetReject /\ Len(queue[f]) < MaxQueue
           THEN queue' = [queue EXCEPT ![f] =
                             Append(@, [pkt |-> Snap(pkt, ret), phase |-> Phase(f)])]
           ELSE UNCHANGED queue
    /\ UNCHANGED <<otherVars, Magic, ldPc, sock, filt, pc, err, sockBuf, nDrain,
                   metricRecvDiscoPacketIPv4, metricRecvDiscoPacketInvalidIPv4,
                   logs, panicked, applies, reads, cbLog>>

\* The owner of the Conn closes family f's socket (c.bpfConn4, c.bpfConn6).
CloseSocket(f) ==
    /\ ~panicked
    /\ sock[f] = "open"
    /\ sock' = [sock EXCEPT ![f] = "closed"]
    /\ queue' = [queue EXCEPT ![f] = <<>>]
    /\ UNCHANGED <<otherVars, Magic, ldPc, filt, pc, err, sockBuf, nDrain,
                   metricRecvDiscoPacketIPv4, metricRecvDiscoPacketInvalidIPv4,
                   logs, panicked, arrivals, lastArr, applies, reads, cbLog>>


\* ------------------------------------------------- listenPacketsWithFilter
\* The results setsockopt(SO_ATTACH_FILTER) can have on family f's socket.
ApplyResults(f) == IF sock[f] = "open" THEN BOOLEAN ELSE {FALSE}

\* bpfFilter.ApplyTo: the program attached to each socket afterwards.
ApplyTo(f, filter, ok) == IF ok THEN [filt EXCEPT ![f] = filter] ELSE filt

\* The return of listenPacketsWithFilter with an error, and the log line of
\* the goroutine that called it.
ReturnError(f, e) ==
    /\ pc' = [pc EXCEPT ![f] = "returned"]
    /\ err' = [err EXCEPT ![f] = e]
    /\ logs' = logs \cup {ListenErrMsg(f)}

\* Where the session goes after ApplyTo of the zero filter.
AfterApplyZero_IgnoreError(ok) == "drain"

AfterApplyZero_SkipToRecv(ok) == IF ok THEN "recv" ELSE "returned"

AfterApplyZero(ok) == IF ok THEN "drain" ELSE "returned"

\* Where the session goes after ApplyTo of the real filter.
AfterApplyReal_BackToDrain(ok) == IF ok THEN "drain" ELSE "returned"

AfterApplyReal(ok) == IF ok THEN "recv" ELSE "returned"

ApplyZero(f) ==
    /\ ~panicked
    /\ pc[f] = "applyZero"
    /\ \E ok \in ApplyResults(f) :
        /\ filt' = ApplyTo(f, zeroFilter, ok)
        /\ applies' = [applies EXCEPT ![f] = Append(@, [which |-> "zero", ok |-> ok])]
        /\ IF AfterApplyZero(ok) = "returned"
           THEN ReturnError(f, "applying zero BPF filter")
           ELSE /\ pc' = [pc EXCEPT ![f] = AfterApplyZero(ok)]
                /\ UNCHANGED <<err, logs>>
    /\ UNCHANGED <<otherVars, Magic, ldPc, sock, queue, sockBuf, nDrain,
                   metricRecvDiscoPacketIPv4, metricRecvDiscoPacketInvalidIPv4,
                   panicked, arrivals, lastArr, reads, cbLog>>

\* Whether the drain loop's non-blocking Recvfrom returns a frame (n # -1).
DrainGotFrame_Never(f) == FALSE

DrainGotFrame(f) == sock[f] = "open" /\ queue[f] # <<>>

\* Where the session goes after a drain read that got a frame or failed
\* (n = -1): the failure is not looked at, it only ends the loop.
AfterDrainRead_ErrorOnFail(got) == IF got THEN "drain" ELSE "returned"

AfterDrainRead(got) == IF got THEN "drain" ELSE "applyReal"

\* One iteration of the drain loop: a non-blocking one-byte Recvfrom, which
\* takes a whole frame off the queue; n = -1 ends the loop.
DrainRead(f) ==
    /\ ~panicked
    /\ pc[f] = "drain"
    /\ reads' = [reads EXCEPT ![f].drain = @ + 1]
    /\ IF DrainGotFrame(f)
       THEN /\ queue' = [queue EXCEPT ![f] = Tail(@)]
            /\ nDrain' = [nDrain EXCEPT ![f] = @ + 1]
       ELSE UNCHANGED <<queue, nDrain>>
    /\ IF AfterDrainRead(DrainGotFrame(f)) = "returned"
       THEN ReturnError(f, "receiving packet")
       ELSE /\ pc' = [pc EXCEPT ![f] = AfterDrainRead(DrainGotFrame(f))]
            /\ UNCHANGED <<err, logs>>
    /\ UNCHANGED <<otherVars, Magic, ldPc, sock, filt, sockBuf,
                   metricRecvDiscoPacketIPv4, metricRecvDiscoPacketInvalidIPv4,
                   panicked, arrivals, lastArr, applies, cbLog>>

ApplyReal(f) ==
    /\ ~panicked
    /\ pc[f] = "applyReal"
    /\ \E ok \in ApplyResults(f) :
        /\ filt' = ApplyTo(f, RealFilter(f), ok)
        /\ applies' = [applies EXCEPT ![f] = Append(@, [which |-> "real", ok |-> ok])]
        /\ IF AfterApplyReal(ok) = "returned"
           THEN ReturnError(f, "applying real BPF filter")
           ELSE /\ pc' = [pc EXCEPT ![f] = AfterApplyReal(ok)]
                /\ UNCHANGED <<err, logs>>
    /\ UNCHANGED <<otherVars, Magic, ldPc, sock, queue, sockBuf, nDrain,
                   metricRecvDiscoPacketIPv4, metricRecvDiscoPacketInvalidIPv4,
                   panicked, arrivals, lastArr, reads, cbLog>>

\* ---------------------------------------------------------------- callbacks
CallRecord(e, outcome, d) ==
    [pkt |-> e.pkt, phase |-> e.phase, outcome |-> outcome,
     src |-> d.src, packetData |-> d.packetData]

\* The counters after handleDiscoMessage returned ok: <<valid, invalid>>.
CountersAfter_AlwaysValid(ok) ==
    <<metricRecvDiscoPacketIPv4 + 1, metricRecvDiscoPacketInvalidIPv4>>

CountersAfter(ok) ==
    IF ok THEN <<metricRecvDiscoPacketIPv4 + 1, metricRecvDiscoPacketInvalidIPv4>>
    ELSE <<metricRecvDiscoPacketIPv4, metricRecvDiscoPacketInvalidIPv4 + 1>>

\* handleIPv4Disco on the queue entry e read into buffer buf.
handleIPv4Disco(e, buf) ==
    LET d == DecodeIPv4(buf, Len(e.pkt)) IN
    IF d.panic
    THEN /\ panicked' = TRUE
         /\ cbLog' = [cbLog EXCEPT ![4] = Append(@, CallRecord(e, "panic", d))]
         /\ UNCHANGED <<metricRecvDiscoPacketIPv4, metricRecvDiscoPacketInvalidIPv4>>
    ELSE \E ok \in HandleDiscoMessageResults :
         /\ metricRecvDiscoPacketIPv4' = CountersAfter(ok)[1]
         /\ metricRecvDiscoPacketInvalidIPv4' = CountersAfter(ok)[2]
         /\ cbLog' = [cbLog EXCEPT ![4] =
                         Append(@, CallRecord(e, IF ok THEN "valid" ELSE "invalid", d))]
         /\ UNCHANGED panicked

\* handleIPv6Disco: returns nil.
handleIPv6Disco(e, buf) ==
    /\ cbLog' = [cbLog EXCEPT ![6] =
                    Append(@, CallRecord(e, "nil", [src |-> <<>>, packetData |-> <<>>]))]
    /\ UNCHANGED <<metricRecvDiscoPacketIPv4, metricRecvDiscoPacketInvalidIPv4, panicked>>

\* The error a callback returns after an invocation with the given outcome
\* ("": nil): both callbacks end with return nil.
CallbackError_InvalidIsError(f, outcome) ==
    IF outcome = "invalid" THEN "invalid disco packet" ELSE ""

CallbackError(f, outcome) == ""

\* One iteration of the receive loop: the blocking Recvfrom returns a frame,
\* which is handed to the callback; both callbacks return nil, so the loop
\* goes on.
RecvFrame(f) ==
    /\ ~panicked
    /\ pc[f] = "recv"
    /\ sock[f] = "open"
    /\ queue[f] # <<>>
    /\ LET e == Head(queue[f])
           buf == BufAfterRead(sockBuf[f], e.pkt)
       IN /\ queue' = [queue EXCEPT ![f] = Tail(@)]
          /\ sockBuf' = [sockBuf EXCEPT ![f] = buf]
          /\ reads' = [reads EXCEPT ![f].recv = @ + 1]
          /\ IF f = 4 THEN handleIPv4Disco(e, buf) ELSE handleIPv6Disco(e, buf)
          /\ LET cbErr == CallbackError(f, cbLog'[f][Len(cbLog'[f])].outcome) IN
             IF cbErr # ""
             THEN ReturnError(f, cbErr)
             ELSE UNCHANGED <<pc, err, logs>>
    /\ UNCHANGED <<otherVars, Magic, ldPc, sock, filt, nDrain, arrivals,
                   lastArr, applies>>

\* Where the session goes after a blocking Recvfrom, which failed (n = -1)
\* or not.
AfterRecvfrom_RetryOnError(failed) == "recv"

AfterRecvfrom(failed) == IF failed THEN "returned" ELSE "recv"

\* The blocking Recvfrom fails (n = -1): the loop ends with the error.
RecvError(f) ==
    /\ ~panicked
    /\ pc[f] = "recv"
    /\ sock[f] # "open"
    /\ reads' = [reads EXCEPT ![f].recv = @ + 1]
    /\ IF AfterRecvfrom(TRUE) = "returned"
       THEN ReturnError(f, "receiving packet")
       ELSE /\ pc' = [pc EXCEPT ![f] = AfterRecvfrom(TRUE)]
            /\ UNCHANGED <<err, logs>>
    /\ UNCHANGED <<otherVars, Magic, ldPc, sock, filt, queue, sockBuf, nDrain,
                   metricRecvDiscoPacketIPv4, metricRecvDiscoPacketInvalidIPv4,
                   panicked, arrivals, lastArr, applies, cbLog>>


\* ------------------------------------------------------------ the program
\* A marker of the wrong length, for the length check of listenDisco.
ShortMagic == SubSeq(DiscoMagic, 1, 5)

SrcA == <<10, 0, 0, 1>>
SrcB == <<192, 168, 1, 200>>

\* The frames that arrive while the sessions run.
SessionDescs ==
    { \* well-formed, marker only
      Desc(2048, ipprotoUDP, 0, 5, SrcA, 1000, 14, DiscoMagic, <<>>, 9999),
      \* well-formed, IP options, a message body and a link-layer trailer
      Desc(2048, ipprotoUDP, 0, 6, SrcB, 513, 16, DiscoMagic \o <<7, 9>>, <<238, 239>>, 9999),
      \* one marker byte altered
      Desc(2048, ipprotoUDP, 0, 5, SrcA, 1000, 14, Alter(DiscoMagic, 5), <<>>, 9999),
      \* first fragment of a fragmented datagram: more-fragments set, offset 0
      Desc(2048, ipprotoUDP, 8192, 5, SrcA, 1000, 14, DiscoMagic, <<>>, 9999),
      \* declared UDP length beyond the received bytes
      Desc(2048, ipprotoUDP, 0, 5, SrcA, 1000, 18, DiscoMagic, <<>>, 9999),
      \* declared UDP length 65535
      Desc(2048, ipprotoUDP, 0, 5, SrcA, 1000, 65535, DiscoMagic, <<>>, 9999),
      \* cut off inside the Ethernet header
      Desc(2048, ipprotoUDP, 0, 5, SrcA, 1000, 14, DiscoMagic, <<>>, 10) }

SessionFrames == { Build(d) : d \in SessionDescs }

\* listenDisco has not been called yet.
CaptureNotStarted ==
    /\ ldPc = "begin"
    /\ sock = [f \in Fam |-> "none"]
    /\ pc = [f \in Fam |-> "idle"]
    /\ filt = [f \in Fam |-> <<>>]
    /\ applies = [f \in Fam |-> <<>>]
    /\ reads = [f \in Fam |-> [drain |-> 0, recv |-> 0]]
    /\ InitCommon

Init ==
    /\ Magic \in {DiscoMagic, ShortMagic}
    /\ CaptureNotStarted
    /\ rt = RtIdle
    /\ rmsg = RmIdle
    /\ UtilitiesIdle

FrameArrives ==
    /\ arrivals < MaxArrivals
    /\ \E f \in Fam, pkt \in SessionFrames : Arrive(f, pkt)

Next ==
    \/ listenDiscoBegin
    \/ \E f \in Fam : listenDiscoSocket(f)
    \/ FrameArrives
    \/ \E f \in Fam : CloseSocket(f)
    \/ \E f \in Fam : ApplyZero(f)
    \/ \E f \in Fam : DrainRead(f)
    \/ \E f \in Fam : ApplyReal(f)
    \/ \E f \in Fam : RecvFrame(f)
    \/ \E f \in Fam : RecvError(f)

Spec == Init /\ [][Next]_vars

\* The Go scheduler runs every goroutine that can run: listenDisco and each
\* session take their next step if it stays possible. Arrivals and the
\* closing of sockets are up to the environment.
Fairness ==
    /\ WF_vars(listenDiscoBegin)
    /\ \A f \in Fam :
        /\ WF_vars(listenDiscoSocket(f))
        /\ WF_vars(ApplyZero(f))
        /\ WF_vars(DrainRead(f))
        /\ WF_vars(ApplyReal(f))
        /\ WF_vars(RecvFrame(f))
        /\ WF_vars(RecvError(f))

\* The frames that arrive in the fairly scheduled runs: a well-formed marked
\* frame and one whose declared UDP length is 65535.
FairDescs ==
    { Desc(2048, ipprotoUDP, 0, 5, SrcA, 1000, 14, DiscoMagic, <<>>, 9999),
      Desc(2048, ipprotoUDP, 0, 5, SrcA, 1000, 65535, DiscoMagic, <<>>, 9999) }

FairFrameArrives ==
    /\ arrivals < MaxArrivals
    /\ \E f \in Fam, d \in FairDescs : Arrive(f, Build(d))

FairInit ==
    /\ Magic = DiscoMagic
    /\ CaptureNotStarted
    /\ rt = RtIdle
    /\ rmsg = RmIdle
    /\ UtilitiesIdle

FairNext ==
    \/ listenDiscoBegin
    \/ \E f \in Fam : listenDiscoSocket(f)
    \/ FairFrameArrives
    \/ \E f \in Fam : CloseSocket(f)
    \/ \E f \in Fam : ApplyZero(f)
    \/ \E f \in Fam : DrainRead(f)
    \/ \E f \in Fam : ApplyReal(f)
    \/ \E f \in Fam : RecvFrame(f)
    \/ \E f \in Fam : RecvError(f)

FairSpec == FairInit /\ [][FairNext]_vars /\ Fairness


\* ------------------------------------------- one frame at a receiving session
\* A second marker, for the filter and the decoder on their own.
AltMagic == <<255, 0, 17, 128, 8, 0>>

\* The declared UDP length of a test frame: right, too small, too large by a
\* little, too large for the buffer, too large for 16 bits once 8 is added,
\* smaller than a UDP header.
ULen(payload, k) ==
    IF k = 0 THEN udpHeaderSize + Len(payload)
    ELSE IF k = 1 THEN udpHeaderSize
    ELSE IF k = 2 THEN udpHeaderSize + Len(payload) + 4
    ELSE IF k = 3 THEN 65500
    ELSE IF k = 4 THEN 65535
    ELSE 3

TestPayloads(m) ==
    {m, m \o <<7, 9, 11>>, SubSeq(m, 1, 5), <<>>} \cup {Alter(m, i) : i \in 1..6}

TestVariants ==
    { [src |-> SrcA, sport |-> 1000, trailer |-> <<>>],
      [src |-> SrcB, sport |-> 513, trailer |-> <<238, 239>>] }

TestDescs(m) ==
    { Desc(eth, proto, frag, ihl, v.src, v.sport, ULen(payload, k), payload, v.trailer, cut) :
        eth \in {2048, 34525}, proto \in {ipprotoUDP, 6},
        frag \in {0, 16384, 8192, 1}, ihl \in {4, 5, 7, 15},
        v \in TestVariants, payload \in TestPayloads(m), k \in 0..5,
        cut \in {9999, 40} }

\* Both sessions set up and blocked in their receive loops, nothing received.
BothReceiving ==
    /\ ldPc = "done"
    /\ sock = [f \in Fam |-> "open"]
    /\ pc = [f \in Fam |-> "recv"]
    /\ filt = [f \in Fam |-> RealFilter(f)]
    /\ applies = [f \in Fam |-> << [which |-> "zero", ok |-> TRUE],
                                  [which |-> "real", ok |-> TRUE] >>]
    /\ reads = [f \in Fam |-> [drain |-> 1, recv |-> 0]]
    /\ InitCommon
    /\ rt = RtIdle
    /\ rmsg = RmIdle
    /\ UtilitiesIdle

InitReceiving ==
    /\ Magic \in {DiscoMagic, AltMagic}
    /\ BothReceiving

TestFrameArrives ==
    /\ arrivals = 0
    /\ \E d \in TestDescs(Magic) : Arrive(4, Build(d))

NextReceiving ==
    \/ TestFrameArrives
    \/ RecvFrame(4)

FilterSpec == InitReceiving /\ [][NextReceiving]_vars


\* ------------------------------------- frames of every header length
\* A marker whose second byte is the UDP protocol number.
ProtoMagic == <<84, ipprotoUDP, 240, 159, 146, 172>>

\* Byte i (0-based) of a frame made for header-length nibble ihl and marker
\* m: the marker where the filter looks for it, else what the filter tests
\* (EtherType IPv4, version and nibble, protocol UDP, fragment field 0), else
\* a UDP length field of 14, else 0.
RawByte(ihl, m, i) ==
    LET at == ethHeaderSize + 4 * ihl + udpHeaderSize IN
    IF i >= at /\ i < at + 6 THEN m[i - at + 1]
    ELSE IF i = 12 THEN 8
    ELSE IF i = ethHeaderSize THEN 64 + ihl
    ELSE IF i = ethHeaderSize + 9 THEN ipprotoUDP
    ELSE IF i = ethHeaderSize + 4 * ihl + 5 THEN 14
    ELSE 0

RawFrame(ihl, m, n) == [i \in 1..n |-> RawByte(ihl, m, i - 1)]

\* Frames that end with the marker, one byte and eight bytes before its end,
\* two bytes after it and well after it, for every value of the nibble.
RawFrames(m) ==
    { RawFrame(ihl, m, ethHeaderSize + 4 * ihl + udpHeaderSize + 6 + extra) :
        ihl \in 0..15, extra \in {-8, -1, 0, 2, 20} }

HeaderInit ==
    /\ Magic \in {DiscoMagic, ProtoMagic}
    /\ BothReceiving

HeaderFrameArrives ==
    /\ arrivals = 0
    /\ \E pkt \in RawFrames(Magic) : Arrive(4, pkt)

HeaderNext ==
    \/ HeaderFrameArrives
    \/ RecvFrame(4)

HeaderSpec == HeaderInit /\ [][HeaderNext]_vars

\* --------------------------------------------- set-up with any marker
\* The byte values markers are made of.
MarkerBytes == {0, 1, 255}

\* The values disco.Magic is tried with: the real one, every 6-byte string
\* over MarkerBytes, and strings of the lengths 0, 5 and 7.
SetupMarkers ==
    {DiscoMagic, AltMagic} \cup [1..6 -> MarkerBytes]
    \cup {<<>>, ShortMagic, DiscoMagic \o <<0>>}

SetupInit ==
    /\ Magic \in SetupMarkers
    /\ CaptureNotStarted
    /\ rt = RtIdle
    /\ rmsg = RmIdle
    /\ UtilitiesIdle

\* listenDisco and the set-up part of both sessions, on sockets that receive
\* nothing.
SetupNext ==
    \/ listenDiscoBegin
    \/ \E f \in Fam : listenDiscoSocket(f)
    \/ \E f \in Fam : ApplyZero(f)
    \/ \E f \in Fam : DrainRead(f)
    \/ \E f \in Fam : ApplyReal(f)

SetupSpec == SetupInit /\ [][SetupNext]_vars

\* ------------------------------------------------------- the route table
\* Longest list of system routes, and largest max, that getRouteTable is
\* called with.
MaxRouteList == 3
MaxMaxArg == 3

\* The address families netlink.RouteListFiltered(FAMILY_ALL, ...) reports.
RouteFamilies == {"FAMILY_V4", "FAMILY_V6", "FAMILY_MPLS"}

SeqsUpTo(S, n) == UNION { [1..k -> S] : k \in 0..n }

\* The routeEntry built for a route (only the family is kept).
RouteEntryOf(route) == [Family |-> IF route.Family = "FAMILY_V4" THEN 4 ELSE 6]

\* The loop of getRouteTable from the i-th route on, with ret collected so far.
RECURSIVE RouteLoop(_, _, _, _)
RouteLoop(routes, i, ret, max) ==
    IF i > Len(routes) THEN ret
    ELSE IF routes[i].Family \notin {"FAMILY_V4", "FAMILY_V6"}
         THEN RouteLoop(routes, i + 1, ret, max)
         ELSE LET ret2 == Append(ret, RouteEntryOf(routes[i])) IN
              IF Len(ret2) = max THEN ret2
              ELSE RouteLoop(routes, i + 1, ret2, max)

\* getRouteTable(max) on a system whose route list is routes; fetchErr tells
\* whether interfaces.GetList or netlink.RouteListFiltered failed.
getRouteTable(max, routes, fetchErr) ==
    IF fetchErr THEN <<>> ELSE RouteLoop(routes, 1, <<>>, max)

RouteInit ==
    /\ Magic = DiscoMagic
    /\ CaptureNotStarted
    /\ rt \in { [max |-> m, routes |-> r, called |-> FALSE, ret |-> <<>>] :
                 m \in 0..MaxMaxArg,
                 r \in SeqsUpTo([Family : RouteFamilies], MaxRouteList) }
    /\ rmsg = RmIdle
    /\ UtilitiesIdle

CallGetRouteTable ==
    /\ ~rt.called
    /\ \E fetchErr \in BOOLEAN :
        rt' = [rt EXCEPT !.called = TRUE,
                         !.ret = getRouteTable(rt.max, rt.routes, fetchErr)]
    /\ UNCHANGED <<captureVars, rmsg, ssh, dns, bug, tool>>

RouteNext == CallGetRouteTable

RouteSpec == RouteInit /\ [][RouteNext]_vars

\* ------------------------------------------------------ route messages
\* Most addresses a route message is given.
MaxAddrs == 3

\* Indices into RouteMessage.Addrs (golang.org/x/sys/unix).
RTAX_DST == 0
RTAX_GATEWAY == 1
RTAX_NETMASK == 2

\* The addresses of a message: nil, IPv4 and IPv6 addresses, a link address.
AddrValues == {"nil", "1.2.3.4", "0.0.0.0", "255.255.255.0", "1234::", "link#1"}

\* The flag bits told apart: RTF_HOST and one bit of skipFlags.
FlagValues == {"RTF_HOST", "skipFlag"}

\* ipFromRMAddr: the address itself for Inet4Addr and Inet6Addr, else the
\* zero netip.Addr, which is not valid.
ipFromRMAddr(addr) == IF addr \in {"nil", "link#1"} THEN "invalid" ELSE addr
IsValid(ip) == ip # "invalid"
Is4(ip) == ip \in {"1.2.3.4", "0.0.0.0", "255.255.255.0"}
IsUnspecified(ip) == ip = "0.0.0.0"

\* net.IPMask(nm.AsSlice()).Size(): the number of leading ones of a
\* canonical mask, 0 for anything else.
MaskOnes(nm) == IF nm = "255.255.255.0" THEN 24 ELSE 0

\* Go's s[i]: the element, or a run-time panic when i >= len(s).
AddrIndexOK(addrs, i) == i < Len(addrs)
AddrAt(addrs, i) == addrs[i + 1]

DstInvalid == [kind |-> "invalid", ip |-> "", ones |-> 0]
DstBare(ip) == [kind |-> "bare", ip |-> ip, ones |-> 0]
DstDefault == [kind |-> "default", ip |-> "", ones |-> 0]
DstPrefix(ip, ones) == [kind |-> "prefix", ip |-> ip, ones |-> ones]

\* The length test for a missing netmask: len(rm.Addrs) < unix.RTAX_NETMASK.
NetmaskAbsent(addrs) == Len(addrs) < RTAX_NETMASK

\* populateDestination: the Dst and Family it leaves in re, or a panic.
populateDestination(rm) ==
    IF ~AddrIndexOK(rm.Addrs, RTAX_DST) THEN [panic |-> TRUE] ELSE
    LET dst == AddrAt(rm.Addrs, RTAX_DST) IN
    IF dst = "nil" THEN [panic |-> FALSE, Dst |-> DstInvalid, Family |-> 0] ELSE
    LET ip == ipFromRMAddr(dst) IN
    IF ~IsValid(ip) THEN [panic |-> FALSE, Dst |-> DstInvalid, Family |-> 0] ELSE
    LET fam == IF Is4(ip) THEN "AF_INET" ELSE "AF_INET6"
        bare == [panic |-> FALSE, Dst |-> DstBare(ip), Family |-> fam]
    IN
    IF "RTF_HOST" \in rm.Flags THEN bare ELSE
    IF NetmaskAbsent(rm.Addrs) THEN bare ELSE
    IF ~AddrIndexOK(rm.Addrs, RTAX_NETMASK) THEN [panic |-> TRUE] ELSE
    IF AddrAt(rm.Addrs, RTAX_NETMASK) = "nil" THEN bare ELSE
    LET ones == MaskOnes(ipFromRMAddr(AddrAt(rm.Addrs, RTAX_NETMASK))) IN
    IF IsUnspecified(ip) /\ ones = 0
    THEN [panic |-> FALSE, Dst |-> DstDefault, Family |-> fam]
    ELSE [panic |-> FALSE, Dst |-> DstPrefix(ip, ones), Family |-> fam]

\* populateGateway: the GatewayAddr it leaves in re.
populateGateway(addr) ==
    IF addr = "link#1" THEN "00:11:22"
    ELSE IF IsValid(ipFromRMAddr(addr)) THEN ipFromRMAddr(addr) ELSE "invalid"

NotARouteEntry == [ok |-> FALSE, panic |-> FALSE]

\* routeEntryFromMsg: (routeEntry{}, false), or a panic, or the entry built.
routeEntryFromMsg(msg) ==
    IF ~msg.isRouteMessage THEN NotARouteEntry
    ELSE IF msg.Version < 3 \/ msg.Version > 5 THEN NotARouteEntry
    ELSE IF msg.Type # "rmExpectedType" THEN NotARouteEntry
    ELSE IF Len(msg.Addrs) < RTAX_GATEWAY THEN NotARouteEntry
    ELSE IF "skipFlag" \in msg.Flags THEN NotARouteEntry
    ELSE LET d == populateDestination(msg) IN
         IF d.panic THEN [ok |-> FALSE, panic |-> TRUE]
         ELSE [ok |-> TRUE, panic |-> FALSE, Dst |-> d.Dst, Family |-> d.Family,
               GatewayAddr |-> IF RTAX_GATEWAY < Len(msg.Addrs)
                               THEN populateGateway(AddrAt(msg.Addrs, RTAX_GATEWAY))
                               ELSE ""]

\* The messages routeEntryFromMsg is called with.
Messages ==
    [isRouteMessage : BOOLEAN, Version : {2, 3, 5, 6},
     Type : {"rmExpectedType", "otherType"},
     Addrs : SeqsUpTo(AddrValues, MaxAddrs), Flags : SUBSET FlagValues]

MsgInit ==
    /\ Magic = DiscoMagic
    /\ CaptureNotStarted
    /\ rt = RtIdle
    /\ UtilitiesIdle
    /\ rmsg \in { [called |-> FALSE, msg |-> m] : m \in Messages }

CallRouteEntryFromMsg ==
    /\ ~rmsg.called
    /\ rmsg' = [called |-> TRUE, msg |-> rmsg.msg, res |-> routeEntryFromMsg(rmsg.msg)]
    /\ UNCHANGED <<captureVars, rt, ssh, dns, bug, tool>>

MsgNext == CallRouteEntryFromMsg

MsgSpec == MsgInit /\ [][MsgNext]_vars

\* ------------------------------------------------------------ runSSHSession
\* How many window events and how many container resizes are followed.
MaxEvents == 2

\* resizeObserver?.disconnect(): nothing on undefined, else the observer
\* stops observing.
ObserverAfterDisconnect(o) == IF o = "undefined" THEN o ELSE "disconnected"

\* if (handleBeforeUnload) { window.removeEventListener(...) }: whether the
\* window still has the listener afterwards.
ListeningAfterRemove(handle, listening) == IF handle THEN FALSE ELSE listening

\* runSSHSession up to the call of ipn.ssh: the terminal is created and
\* opened, resizeObserver and handleBeforeUnload are declared and undefined.
runSSHSessionBegin ==
    /\ ssh.pc = "idle"
    /\ ssh' = [ssh EXCEPT !.pc = "inSsh"]
    /\ UNCHANGED <<captureVars, rt, rmsg, dns, bug, tool>>

\* The session hands over its input hook: setReadFn(hook).
setReadFn ==
    /\ ssh.pc \in {"inSsh", "returned"}
    /\ ~ssh.done
    /\ ~ssh.onDataHook
    /\ ssh' = [ssh EXCEPT !.onDataHook = TRUE]
    /\ UNCHANGED <<captureVars, rt, rmsg, dns, bug, tool>>

\* The session has output for the terminal: writeFn(input), or
\* writeErrorFn(err), which also logs to the console.
writeFn ==
    /\ ssh.pc \in {"inSsh", "returned"}
    /\ ~ssh.done
    /\ ssh.written < MaxEvents
    /\ ssh' = [ssh EXCEPT !.written = @ + 1]
    /\ UNCHANGED <<captureVars, rt, rmsg, dns, bug, tool>>

\* The session signals its end: the onDone passed to ipn.ssh. The session
\* calls it when it sees fit, inside the call of ipn.ssh or any time later.
sessionOnDone ==
    /\ ssh.pc \in {"inSsh", "returned"}
    /\ ~ssh.done
    /\ ssh' = [ssh EXCEPT
                 !.resizeObserver = ObserverAfterDisconnect(@),
                 !.termDisposed = TRUE,
                 !.listening = ListeningAfterRemove(ssh.handleBeforeUnload, @),
                 !.callerDone = @ + 1,
                 !.done = TRUE]
    /\ UNCHANGED <<captureVars, rt, rmsg, dns, bug, tool>>

\* ipn.ssh returns and runSSHSession runs to its end: the observer is
\* created and observes the container, handleBeforeUnload is assigned and
\* added to the window.
runSSHSessionRest ==
    /\ ssh.pc = "inSsh"
    /\ ssh' = [ssh EXCEPT
                 !.resizeObserver = "observing",
                 !.handleBeforeUnload = TRUE,
                 !.listening = TRUE,
                 !.pc = "returned"]
    /\ UNCHANGED <<captureVars, rt, rmsg, dns, bug, tool>>

\* The window dispatches beforeunload: a listener still on the window calls
\* sshSession.close().
beforeUnload ==
    /\ ssh.pc = "returned"
    /\ ssh.unloads < MaxEvents
    /\ ssh' = [ssh EXCEPT
                 !.unloads = @ + 1,
                 !.closeCalls = IF ssh.listening THEN @ + 1 ELSE @]
    /\ UNCHANGED <<captureVars, rt, rmsg, dns, bug, tool>>

\* The container is resized: an observing observer calls fitAddon.fit(),
\* and a resize of the terminal calls sshSession.resize. Whether a disposed
\* terminal still resizes is the terminal library's matter.
containerResized ==
    /\ ssh.pc = "returned"
    /\ ssh.resizeObserver = "observing"
    /\ ssh.resizeCalls < MaxEvents
    /\ \E resized \in (IF ssh.termDisposed THEN BOOLEAN ELSE {TRUE}) :
        ssh' = [ssh EXCEPT !.resizeCalls = IF resized THEN @ + 1 ELSE @]
    /\ ssh' # ssh
    /\ UNCHANGED <<captureVars, rt, rmsg, dns, bug, tool>>

SshInit ==
    /\ Magic = DiscoMagic
    /\ CaptureNotStarted
    /\ rt = RtIdle
    /\ rmsg = RmIdle
    /\ UtilitiesIdle

SshNext ==
    \/ runSSHSessionBegin
    \/ setReadFn
    \/ writeFn
    \/ sessionOnDone
    \/ runSSHSessionRest
    \/ beforeUnload
    \/ containerResized

SshSpec == SshInit /\ [][SshNext]_vars

\* -------------------------------------------------------------- DNSServers
\* How many interfaces interfaces.GetList returns at most.
MaxIfaces == 2

\* What "ipconfig getoption <if> domain_name_server" prints, as pieces of
\* text: the text of an address, other text, white space.
Outputs ==
    { <<>>, <<"\n">>, <<" ", "\n">>, <<"1.1.1.1", "\n">>, <<" ", "8.8.8.8">>,
      <<"1.1.1.1">>, <<"none", "\n">>, <<"1.1.1.1", " ", "8.8.8.8">>,
      <<"8.8.8.8", "\n", "none">> }

\* The results of CombinedOutput: err is nil, an *exec.ExitError with exit
\* code 1 or 2, or another error (the command could not be started).
CmdResults ==
    { [err |-> "nil", out |-> o] : o \in Outputs } \cup
    { [err |-> e, out |-> o] : e \in {"exit1", "exit2", "other"},
                               o \in {<<>>, <<"\n">>, <<"none", "\n">>} }

IsExitError(e) == e \in {"exit1", "exit2"}
ExitCode(e) == IF e = "exit1" THEN 1 ELSE 2

IsSpace(c) == c \in {" ", "\n"}

RECURSIVE TrimLeft(_)
TrimLeft(s) == IF s # <<>> /\ IsSpace(Head(s)) THEN TrimLeft(Tail(s)) ELSE s

RECURSIVE TrimRight(_)
TrimRight(s) ==
    IF s # <<>> /\ IsSpace(s[Len(s)]) THEN TrimRight(SubSeq(s, 1, Len(s) - 1)) ELSE s

\* strings.TrimSpace: leading and trailing white space removed.
TrimSpace(s) == TrimRight(TrimLeft(s))

\* netaddr.ParseIP: the address a text denotes, an error for any other text.
ParseIP(s) ==
    IF s = <<"1.1.1.1">> THEN [ok |-> TRUE, ip |-> <<1, 1, 1, 1>>]
    ELSE IF s = <<"8.8.8.8">> THEN [ok |-> TRUE, ip |-> <<8, 8, 8, 8>>]
    ELSE [ok |-> FALSE, ip |-> <<>>]

\* return nil, err: what DNSServers returns on an error, having collected ret.
ErrorReturn_KeepCollected(ret, e) == [ret |-> ret, err |-> e]

ErrorReturn(ret, e) == [ret |-> <<>>, err |-> e]

\* The loop over the interfaces, given each interface's command result.
RECURSIVE DNSLoop(_, _)
DNSLoop(results, ret) ==
    IF results = <<>> THEN [ret |-> ret, err |-> ""]
    ELSE LET r == Head(results) IN
         IF r.err # "nil"
         THEN IF IsExitError(r.err) /\ ExitCode(r.err) = 1 /\ Len(r.out) = 0
              THEN DNSLoop(Tail(results), ret)
              ELSE ErrorReturn(ret, r.err)
         ELSE LET s == TrimSpace(r.out) IN
              IF s = <<>> THEN DNSLoop(Tail(results), ret)
              ELSE LET p == ParseIP(s) IN
                   IF ~p.ok THEN ErrorReturn(ret, "ParseIP")
                   ELSE DNSLoop(Tail(results), Append(ret, p.ip))

\* DNSServers, given the result of interfaces.GetList and of each command.
DNSServers(getListErr, results) ==
    IF getListErr THEN ErrorReturn(<<>>, "GetList") ELSE DNSLoop(results, <<>>)

DnsInit ==
    /\ Magic = DiscoMagic
    /\ CaptureNotStarted
    /\ rt = RtIdle
    /\ rmsg = RmIdle
    /\ ssh = SshIdle /\ bug = BugIdle /\ tool = ToolIdle
    /\ dns \in { [called |-> FALSE, getListErr |-> FALSE, results |-> r] :
                  r \in SeqsUpTo(CmdResults, MaxIfaces) }
               \cup { [called |-> FALSE, getListErr |-> TRUE, results |-> <<>>] }

CallDNSServers ==
    /\ ~dns.called
    /\ dns' = [called |-> TRUE, getListErr |-> dns.getListErr, results |-> dns.results,
               res |-> DNSServers(dns.getListErr, dns.results)]
    /\ UNCHANGED <<captureVars, rt, rmsg, ssh, bug, tool>>

DnsNext == CallDNSServers

DnsSpec == DnsInit /\ [][DnsNext]_vars

\* ------------------------------------------------------------ runBugReport
\* How many command-line arguments runBugReport is given at most.
MaxArgs == 2

ArgValues == {"note", "crash at start", ""}

\* What localClient.BugReport returns: a marker, or an error.
BugReportResults ==
    { [err |-> "", marker |-> m] : m \in {"BUG-1", "BUG-2"} } \cup
    { [err |-> e, marker |-> ""] : e \in {"connection refused", "timeout"} }

\* The rest of runBugReport once BugReport has returned r: what is printed
\* and what is returned ("": nil).
AfterBugReport_PrintAlways(r) == [printed |-> <<r.marker>>, ret |-> r.err]

AfterBugReport(r) ==
    IF r.err # "" THEN [printed |-> <<>>, ret |-> r.err]
    ELSE [printed |-> <<r.marker>>, ret |-> ""]

\* runBugReport: the calls of BugReport it makes, the lines it prints and
\* the error it returns, BugReport returning r when called.
runBugReport(args, doctor, r) ==
    IF Len(args) > 1
    THEN [calls |-> <<>>, printed |-> <<>>, ret |-> "unknown argumets"]
    ELSE LET note == IF Len(args) = 0 THEN "" ELSE args[1]
             after == AfterBugReport(r)
         IN [calls |-> <<[note |-> note, doctor |-> doctor]>>,
             printed |-> after.printed, ret |-> after.ret]

BugInit ==
    /\ Magic = DiscoMagic
    /\ CaptureNotStarted
    /\ rt = RtIdle
    /\ rmsg = RmIdle
    /\ ssh = SshIdle /\ dns = DnsIdle /\ tool = ToolIdle
    /\ bug \in { [called |-> FALSE, args |-> a, doctor |-> d] :
                  a \in SeqsUpTo(ArgValues, MaxArgs), d \in BOOLEAN }

CallRunBugReport ==
    /\ ~bug.called
    /\ \E r \in BugReportResults :
        bug' = [called |-> TRUE, args |-> bug.args, doctor |-> bug.doctor,
                rpc |-> r, res |-> runBugReport(bug.args, bug.doctor, r)]
    /\ UNCHANGED <<captureVars, rt, rmsg, ssh, dns, tool>>

BugNext == CallRunBugReport

BugSpec == BugInit /\ [][BugNext]_vars

\* ------------------------------------------ the standalone capture tool
\* The size of the tool's receive buffer: make([]byte, 4000).
ToolBufSize == 4000

\* The two programs of run, as written there.
bpftest_zeroFilter == << RetConstant(RetReject) >>

bpftest_magicsockFilter(m) ==
    LET magic1 == BigEndianUint32(SubSeq(m, 1, 4))
        magic2 == BigEndianUint16(SubSeq(m, 5, 6))
    IN << LoadAbsolute(12, 2),
          JumpIf("JumpEqual", U32(2048), 0, 10),
          LoadAbsolute(14 + 9, 1),
          JumpIf("JumpEqual", U32(ipprotoUDP), 0, 8),
          LoadAbsolute(14 + 6, 2),
          JumpIf("JumpBitsSet", U32(8191), 6, 0),
          LoadMemShift(14 + 0),
          LoadIndirect(14 + 8, 4),
          JumpIf("JumpEqual", magic1, 0, 3),
          LoadIndirect(14 + 8 + 4, 2),
          JumpIf("JumpEqual", U32(magic2), 0, 1),
          RetConstant(RetAccept),
          RetConstant(RetReject) >>

\* Recvfrom into a buffer of size bytes: at most size bytes of the frame
\* are copied and counted, the rest of it is dropped.
RecvLen(pkt, size) == Min(Len(pkt), size)
BufAfterRecv(buf, pkt, size) ==
    SubSeq(pkt, 1, RecvLen(pkt, size)) \o SubSeq(buf, RecvLen(pkt, size) + 1, Len(buf))

\* The parsing run does on packet = sockBuf[:n], or a run-time panic where a
\* slice or index expression is out of range.
bpftest_Decode(buf, n) ==
    LET packet == GoSlice(0, n, ToolBufSize) IN
    IF ~SliceFromOK(packet, 14) THEN GoPanic ELSE
    LET ipPacket == SliceFrom(packet, 14) IN
    IF ~IndexOK(ipPacket, 0) THEN GoPanic ELSE
    LET ipHdrLen == (4 * (BufAt(buf, ipPacket.off) % 16)) % 256 IN
    IF ~SliceOK(ipPacket, 12, 16) \/ ~SliceOK(ipPacket, 16, 20) THEN GoPanic ELSE
    LET srcAddr == SliceBytes(buf, Slice(ipPacket, 12, 16)) IN
    IF ~SliceFromOK(ipPacket, ipHdrLen) THEN GoPanic ELSE
    LET udpPacket == SliceFrom(ipPacket, ipHdrLen) IN
    IF \/ ~SliceOK(udpPacket, 0, 2) \/ ~SliceOK(udpPacket, 2, 4)
       \/ ~SliceOK(udpPacket, 4, 6) \/ ~SliceFromOK(udpPacket, 8)
    THEN GoPanic ELSE
    [panic |-> FALSE,
     src |-> <<srcAddr, BigEndianUint16(SliceBytes(buf, Slice(udpPacket, 0, 2)))>>,
     packetData |-> SliceBytes(buf, SliceFrom(udpPacket, 8))]

\* run returns error e; the deferred unix.Close(fd) closes its socket.
runReturn(t, e) == [t EXCEPT !.pc = "returned", !.err = e, !.sock = "closed", !.queue = <<>>]

\* The tool is run beside listenDisco's IPv4 session and is given what that
\* session is given: the same results of the system calls and the same
\* frames, in the same order. It has taken in everything the session has.
ToolCaughtUp ==
    /\ ldPc \in {"begin", "socket4"} \/ tool.pc # "idle"
    /\ Len(tool.applies) = Len(applies[4])
    /\ tool.reads = reads[4]
    /\ tool.arrivals = arrivals
    /\ sock[4] = "closed" => tool.sock # "open"

\* unix.Socket in run, with the result the session's socket call had.
runSocket ==
    /\ tool.pc = "idle"
    /\ ldPc \notin {"begin", "socket4"}
    /\ tool' = IF sock[4] = "failed"
               THEN [tool EXCEPT !.pc = "returned", !.err = "creating raw socket",
                                 !.sock = "failed"]
               ELSE [tool EXCEPT !.pc = "applyZero", !.sock = "open"]
    /\ UNCHANGED <<captureVars, rt, rmsg, ssh, dns, bug>>

\* zeroFilter.ApplyTo(fd) in run.
runApplyZero ==
    /\ tool.pc = "applyZero"
    /\ Len(tool.applies) < Len(applies[4])
    /\ LET ok == applies[4][Len(tool.applies) + 1].ok
           t == [tool EXCEPT !.applies = Append(@, [which |-> "zero", ok |-> ok])]
       IN tool' = IF ok THEN [t EXCEPT !.pc = "drain", !.filt = bpftest_zeroFilter]
                  ELSE runReturn(t, "applying zero BPF filter")
    /\ UNCHANGED <<captureVars, rt, rmsg, ssh, dns, bug>>

\* One iteration of the drain loop of run.
runDrainRead ==
    /\ tool.pc = "drain"
    /\ tool.reads.drain < reads[4].drain
    /\ LET got == tool.sock = "open" /\ tool.queue # <<>>
           t == [tool EXCEPT !.reads.drain = @ + 1]
       IN tool' = IF got THEN [t EXCEPT !.queue = Tail(@), !.nDrain = @ + 1]
                  ELSE [t EXCEPT !.pc = "applyReal"]
    /\ UNCHANGED <<captureVars, rt, rmsg, ssh, dns, bug>>

\* The length check on disco.Magic and magicsockFilter.ApplyTo(fd) in run.
runApplyReal ==
    /\ tool.pc = "applyReal"
    /\ Len(tool.applies) < Len(applies[4])
    /\ LET ok == applies[4][Len(tool.applies) + 1].ok
           t == [tool EXCEPT !.applies = Append(@, [which |-> "real", ok |-> ok])]
       IN tool' = IF Len(Magic) # 6 THEN [tool EXCEPT !.pc = "panicked"]
                  ELSE IF ok
                  THEN [t EXCEPT !.pc = "recv", !.filt = bpftest_magicsockFilter(Magic)]
                  ELSE runReturn(t, "applying real BPF filter")
    /\ UNCHANGED <<captureVars, rt, rmsg, ssh, dns, bug>>

\* One iteration of the receive loop of run: Recvfrom returns a frame, which
\* is parsed and logged.
runRecvFrame ==
    /\ tool.pc = "recv"
    /\ tool.reads.recv < reads[4].recv
    /\ tool.sock = "open"
    /\ tool.queue # <<>>
    /\ LET e == Head(tool.queue)
           n == RecvLen(e.pkt, ToolBufSize)
           buf == BufAfterRecv(tool.sockBuf, e.pkt, ToolBufSize)
       IN tool' = [tool EXCEPT
                     !.queue = Tail(@),
                     !.sockBuf = buf,
                     !.reads.recv = @ + 1,
                     !.decoded = Append(@, SubSeq(buf, 1, n)),
                     !.pc = IF bpftest_Decode(buf, n).panic THEN "panicked" ELSE "recv"]
    /\ UNCHANGED <<captureVars, rt, rmsg, ssh, dns, bug>>

\* The blocking Recvfrom of run fails (n = -1).
runRecvError ==
    /\ tool.pc = "recv"
    /\ tool.reads.recv < reads[4].recv
    /\ tool.sock # "open"
    /\ tool' = runReturn([tool EXCEPT !.reads.recv = @ + 1], "receiving packet")
    /\ UNCHANGED <<captureVars, rt, rmsg, ssh, dns, bug>>

\* The frame that arrived at the session's socket arrives at the tool's: the
\* kernel evaluates the program attached there.
toolArrive ==
    /\ tool.arrivals < arrivals
    /\ LET pkt == lastArr[4].pkt
           ret == IF tool.filt = <<>> THEN RetAccept ELSE RunBPF(tool.filt, pkt)
           phase == IF tool.filt = <<>> THEN "unfiltered"
                    ELSE IF tool.filt = bpftest_zeroFilter THEN "zero" ELSE "real"
           t == [tool EXCEPT !.arrivals = @ + 1]
       IN tool' = IF tool.sock = "open" /\ ret # RetReject /\ Len(tool.queue) < MaxQueue
                  THEN [t EXCEPT !.queue = Append(@, [pkt |-> Snap(pkt, ret), phase |-> phase])]
                  ELSE t
    /\ UNCHANGED <<captureVars, rt, rmsg, ssh, dns, bug>>

\* The tool's socket is closed from outside when the session's is.
toolClose ==
    /\ sock[4] = "closed"
    /\ tool.sock = "open"
    /\ tool' = [tool EXCEPT !.sock = "closed", !.queue = <<>>]
    /\ UNCHANGED <<captureVars, rt, rmsg, ssh, dns, bug>>

\* The frames that arrive: a marked frame, one with an altered marker, and
\* a marked frame longer than the tool's buffer.
ToolDescs ==
    { Desc(2048, ipprotoUDP, 0, 5, SrcA, 1000, 14, DiscoMagic, <<>>, 9999),
      Desc(2048, ipprotoUDP, 0, 5, SrcA, 1000, 14, Alter(DiscoMagic, 5), <<>>, 9999),
      Desc(2048, ipprotoUDP, 0, 5, SrcB, 513, udpHeaderSize + 6 + ToolBufSize,
           DiscoMagic \o Repeat(7, ToolBufSize), <<>>, 9999) }

ToolFrameArrives ==
    /\ ToolCaughtUp
    /\ arrivals < MaxArrivals
    /\ \E d \in ToolDescs : Arrive(4, Build(d))

ToolInit ==
    /\ Magic = DiscoMagic
    /\ CaptureNotStarted
    /\ rt = RtIdle
    /\ rmsg = RmIdle
    /\ UtilitiesIdle

ToolNext ==
    \/ ToolCaughtUp /\ listenDiscoBegin
    \/ ToolCaughtUp /\ listenDiscoSocket(4)
    \/ ToolFrameArrives
    \/ ToolCaughtUp /\ CloseSocket(4)
    \/ ToolCaughtUp /\ ApplyZero(4)
    \/ ToolCaughtUp /\ DrainRead(4)
    \/ ToolCaughtUp /\ ApplyReal(4)
    \/ ToolCaughtUp /\ RecvFrame(4)
    \/ ToolCaughtUp /\ RecvError(4)
    \/ runSocket
    \/ runApplyZero
    \/ runDrainRead
    \/ runApplyReal
    \/ runRecvFrame
    \/ runRecvError
    \/ toolArrive
    \/ toolClose

ToolSpec == ToolInit /\ [][ToolNext]_vars

\* ================================================================== claims
\* ---- vocabulary of the claims, read off the frame's bytes
\* The IPv4 flags/fragment-offset field: bytes 20, 21 of the frame.
FragField(pkt) == pkt[21] * 256 + pkt[22]

\* More-fragments flag set, or fragment offset not zero.
IsFragment(pkt) == Len(pkt) >= 22 /\ BitAnd(FragField(pkt), 16383) # 0

\* Offset of the UDP header: 14 + 4 * (byte[14] & 0xF).
UdpOff(pkt) == ethHeaderSize + 4 * (pkt[15] % 16)

\* The three conditions of a match: ethertype, protocol, marker bytes.
MatchesMarker(pkt, m) ==
    /\ Len(pkt) >= 24
    /\ pkt[13] * 256 + pkt[14] = 2048
    /\ pkt[24] = ipprotoUDP
    /\ Len(pkt) >= UdpOff(pkt) + udpHeaderSize + 6
    /\ SubSeq(pkt, UdpOff(pkt) + udpHeaderSize + 1, UdpOff(pkt) + udpHeaderSize + 6) = m

DeclaredUdpLen(pkt) == pkt[UdpOff(pkt) + 5] * 256 + pkt[UdpOff(pkt) + 6]

\* An unfragmented IPv4/UDP frame with a header of 5..15 words whose
\* datagram, as declared, lies within the frame and starts with the marker.
WellFormedMarked(pkt, m) ==
    /\ MatchesMarker(pkt, m)
    /\ ~IsFragment(pkt)
    /\ pkt[15] % 16 >= 5
    /\ DeclaredUdpLen(pkt) >= udpHeaderSize + 6
    /\ UdpOff(pkt) + DeclaredUdpLen(pkt) <= Len(pkt)

\* Headers cut short, or a declared UDP length beyond the received bytes.
Malformed(pkt) ==
    \/ Len(pkt) < ethHeaderSize + 20
    \/ Len(pkt) < UdpOff(pkt) + udpHeaderSize
    \/ UdpOff(pkt) + DeclaredUdpLen(pkt) > Len(pkt)

RealInstalled(f) ==
    \E i \in 1..Len(applies[f]) : applies[f][i] = [which |-> "real", ok |-> TRUE]

ZeroFailed(f) == Len(applies[f]) >= 1 /\ applies[f][1] = [which |-> "zero", ok |-> FALSE]
RealFailed(f) == Len(applies[f]) >= 2 /\ applies[f][2] = [which |-> "real", ok |-> FALSE]

Other(f) == IF f = 4 THEN 6 ELSE 4

\* C1: every frame the receive loop hands to the callback was enqueued while
\* the real filter was attached and is accepted by the real filter; no frame
\* queued before the real filter was installed reaches the callback.
C1_RaceClosed ==
    \A f \in Fam : \A i \in 1..Len(cbLog[f]) :
        /\ cbLog[f][i].phase = "real"
        /\ RunBPF(RealFilter(f), cbLog[f][i].pkt) # RetReject

\* A frame was queued before the first filter and drained, and a later frame
\* reached the callback.
C1_Witness == nDrain[4] > 0 /\ Len(cbLog[4]) > 0

\* C2: the callback has been invoked zero times unless the session's real
\* filter has been installed successfully.
C2_NoCallbackBeforeRealFilter ==
    \A f \in Fam : Len(cbLog[f]) > 0 => RealInstalled(f) /\ filt[f] = RealFilter(f)

C2_Witness == RealInstalled(4) /\ Len(cbLog[4]) > 0 /\ reads[4].drain > 0

\* C3: on a frame that is not a fragment the IPv4 program returns 0xFFFFFFFF
\* iff ethertype is 0x0800, the protocol byte is UDP and the 6 bytes at
\* 14 + 4*(byte[14] & 0xF) + 8 are the marker; otherwise it returns 0.
C3_AcceptIffMarker ==
    LET a == lastArr[4] IN
    (a.phase = "real" /\ ~IsFragment(a.pkt)) =>
        /\ a.ret \in {RetAccept, RetReject}
        /\ a.ret = RetAccept <=> MatchesMarker(a.pkt, Magic)

\* An unfragmented frame with 60 bytes of IPv4 header was accepted.
C3_Witness ==
    LET a == lastArr[4] IN
    /\ a.phase = "real" /\ ~IsFragment(a.pkt) /\ a.ret = RetAccept
    /\ a.pkt[15] % 16 = 15

\* C4: a frame with the more-fragments flag set or a nonzero fragment offset
\* is rejected by the IPv4 program and never reaches handleIPv4Disco.
C4_FragmentsRejected ==
    /\ (lastArr[4].phase = "real" /\ IsFragment(lastArr[4].pkt))
            => lastArr[4].ret = RetReject
    /\ \A i \in 1..Len(cbLog[4]) : ~IsFragment(cbLog[4][i].pkt)

\* C5: for a well-formed frame whose payload starts with the marker,
\* handleIPv4Disco forwards the frame's source address and source port and
\* exactly the UDP payload: (declared UDP length - 8) bytes from offset 8 of
\* the UDP header.
C5_DecoderExact ==
    \A i \in 1..Len(cbLog[4]) :
        LET c == cbLog[4][i] IN
        WellFormedMarked(c.pkt, Magic) =>
            /\ c.outcome # "panic"
            /\ c.src = << SubSeq(c.pkt, ethHeaderSize + 13, ethHeaderSize + 16),
                          c.pkt[UdpOff(c.pkt) + 1] * 256 + c.pkt[UdpOff(c.pkt) + 2] >>
            /\ c.packetData = SubSeq(c.pkt, UdpOff(c.pkt) + udpHeaderSize + 1,
                                     UdpOff(c.pkt) + DeclaredUdpLen(c.pkt))

\* C6: a frame in the IPv4 receive loop with truncated headers or a declared
\* UDP length beyond the received bytes never crashes the session (it is
\* counted invalid and the loop goes on): handleIPv4Disco does not panic on it.
C6_MalformedNeverCrashes ==
    \A i \in 1..Len(cbLog[4]) :
        Malformed(cbLog[4][i].pkt) => cbLog[4][i].outcome # "panic"

\* C7: an invocation of handleIPv4Disco that returns adds exactly 1 to the
\* valid counter when handleDiscoMessage returned true, to the invalid
\* counter when it returned false, and leaves the other counter alone; no
\* counter ever decreases.
C7_OneCounterPerCall ==
    [][ /\ metricRecvDiscoPacketIPv4' >= metricRecvDiscoPacketIPv4
        /\ metricRecvDiscoPacketInvalidIPv4' >= metricRecvDiscoPacketInvalidIPv4
        /\ (Len(cbLog'[4]) = Len(cbLog[4]) + 1 /\ cbLog'[4][Len(cbLog'[4])].outcome # "panic")
            => LET o == cbLog'[4][Len(cbLog'[4])].outcome IN
               \/ /\ o = "valid"
                  /\ metricRecvDiscoPacketIPv4' = metricRecvDiscoPacketIPv4 + 1
                  /\ metricRecvDiscoPacketInvalidIPv4' = metricRecvDiscoPacketInvalidIPv4
               \/ /\ o = "invalid"
                  /\ metricRecvDiscoPacketIPv4' = metricRecvDiscoPacketIPv4
                  /\ metricRecvDiscoPacketInvalidIPv4' = metricRecvDiscoPacketInvalidIPv4 + 1
        /\ (Len(cbLog'[4]) = Len(cbLog[4]))
            => /\ metricRecvDiscoPacketIPv4' = metricRecvDiscoPacketIPv4
               /\ metricRecvDiscoPacketInvalidIPv4' = metricRecvDiscoPacketInvalidIPv4
      ]_vars

\* Both counters have been incremented.
C7_Witness == metricRecvDiscoPacketIPv4 = 1 /\ metricRecvDiscoPacketInvalidIPv4 = 1

\* C8: frames that do not match the real filter change no counter, and each
\* matching frame the receive loop has read accounts for exactly one
\* increment: the counters sum to the number of matching frames read.
C8_OneIncrementPerMatch ==
    /\ \A i \in 1..Len(cbLog[4]) : RunBPF(RealFilter(4), cbLog[4][i].pkt) # RetReject
    /\ metricRecvDiscoPacketIPv4 + metricRecvDiscoPacketInvalidIPv4 = Len(cbLog[4])

\* C9: a family whose socket could not be created, or whose filter could not
\* be installed, has logged the failure and has no running session, and
\* listenDisco still tries the other family and launches its session.
C9_FailureIsolated ==
    \A f \in Fam :
        /\ sock[f] = "failed" => CreateErrMsg(f) \in logs /\ pc[f] = "idle"
        /\ (ZeroFailed(f) \/ RealFailed(f)) => ListenErrMsg(f) \in logs /\ pc[f] = "returned"
        /\ ldPc = "done" =>
              /\ sock[Other(f)] # "none"
              /\ sock[Other(f)] # "failed" => pc[Other(f)] # "idle"

\* The IPv6 socket could not be created and the IPv4 session has dispatched a
\* frame from its receive loop.
C9_Witness ==
    /\ sock[6] = "failed" /\ pc[4] = "recv"
    /\ Len(cbLog[4]) > 0 /\ cbLog[4][1].outcome = "valid"

\* C10: after a failed zero-filter install the session has returned an error
\* with no drain read, no real-filter install and no blocking read; after a
\* failed real-filter install it has returned an error with no blocking read;
\* in both cases the callback was never invoked.
C10_FilterFailureStops ==
    \A f \in Fam :
        /\ ZeroFailed(f) =>
              /\ pc[f] = "returned" /\ err[f] = "applying zero BPF filter"
              /\ reads[f] = [drain |-> 0, recv |-> 0]
              /\ Len(applies[f]) = 1
              /\ cbLog[f] = <<>>
        /\ RealFailed(f) =>
              /\ pc[f] = "returned" /\ err[f] = "applying real BPF filter"
              /\ reads[f].recv = 0
              /\ cbLog[f] = <<>>

\* One session failed on the zero filter, the other on the real filter after
\* draining a frame.
C10_Witness == ZeroFailed(6) /\ RealFailed(4) /\ nDrain[4] > 0


\* C16: getRouteTable(max) returns at most max route entries, for every
\* max >= 0 and every list of system routes.
C16_AtMostMax == rt.called => Len(rt.ret) <= rt.max


\* C11: a failed blocking read in the receive loop ends the loop and returns
\* the error "receiving packet"; a session that has returned stays returned
\* and from then on performs no read, invokes no callback, records no other
\* error and (for the IPv4 session, the only one with counters) changes no
\* counter.
C11_StoppedForGood ==
    [][\A f \in Fam :
        /\ (pc[f] = "recv" /\ sock[f] # "open" /\ reads'[f].recv # reads[f].recv)
              => (pc'[f] = "returned" /\ err'[f] = "receiving packet")
        /\ pc[f] = "returned"
              => /\ pc'[f] = "returned"
                 /\ reads'[f] = reads[f]
                 /\ cbLog'[f] = cbLog[f]
                 /\ err'[f] = err[f]
                 /\ applies'[f] = applies[f]
                 /\ f = 4 => /\ metricRecvDiscoPacketIPv4' = metricRecvDiscoPacketIPv4
                             /\ metricRecvDiscoPacketInvalidIPv4' =
                                    metricRecvDiscoPacketInvalidIPv4]_vars

\* The IPv4 session has stopped on a failed read after a callback, while the
\* IPv6 session is still receiving.
C11_Witness ==
    /\ pc[4] = "returned" /\ err[4] = "receiving packet"
    /\ Len(cbLog[4]) > 0 /\ reads[4].recv >= 2
    /\ pc[6] = "recv"


\* A session step of family g is possible now.
SessionStepEnabled(g) ==
    \/ ENABLED ApplyZero(g)
    \/ ENABLED DrainRead(g)
    \/ ENABLED ApplyReal(g)
    \/ ENABLED RecvFrame(g)
    \/ ENABLED RecvError(g)

\* Family f's session is suspended in the blocking Recvfrom.
BlockedInRead(f) == pc[f] = "recv" /\ sock[f] = "open" /\ queue[f] = <<>>

\* Family g's session has a step to take that does not depend on its socket
\* holding data.
Runnable(g) ==
    \/ pc[g] \in {"applyZero", "drain", "applyReal"}
    \/ pc[g] = "recv" /\ ~BlockedInRead(g)

\* C12: listenDisco itself installs no filter and performs no read (steps of
\* listenDisco leave filters, reads, queues and callbacks alone); while the
\* process lives its next step is possible whatever the sessions are doing, so
\* its return never waits on a session; and while one session is blocked in
\* its read, the other family's session can take every step it has.
C12_NothingWaits ==
    /\ [][ldPc' # ldPc =>
            /\ filt' = filt /\ applies' = applies /\ reads' = reads
            /\ queue' = queue /\ nDrain' = nDrain /\ cbLog' = cbLog
            /\ sockBuf' = sockBuf /\ err' = err]_vars
    /\ [](~panicked =>
            /\ ldPc = "socket4" => ENABLED listenDiscoSocket(4)
            /\ ldPc = "socket6" => ENABLED listenDiscoSocket(6)
            /\ \A f \in Fam :
                  (BlockedInRead(f) /\ Runnable(Other(f)))
                     => SessionStepEnabled(Other(f)))

\* listenDisco has returned while the IPv4 session is blocked in its read and
\* the IPv6 session, having taken steps of its own, is still draining.
C12_Witness ==
    /\ ldPc = "done"
    /\ BlockedInRead(4) /\ reads[4].recv > 0
    /\ pc[6] = "drain" /\ reads[6].drain > 0


\* C13: for a 6-byte marker, the program installed on the IPv4 socket compares
\* against the big-endian 32-bit value of the marker's bytes 0..3 and the
\* big-endian 16-bit value of its bytes 4..5; with a marker of any other
\* length listenDisco panics, and no socket has been opened nor any session
\* launched.
C13_MarkerConstants ==
    /\ (Len(Magic) = 6 /\ RealInstalled(4)) =>
          /\ filt[4][9].Val = <<Magic[1] * 256 + Magic[2], Magic[3] * 256 + Magic[4]>>
          /\ filt[4][11].Val = <<0, Magic[5] * 256 + Magic[6]>>
    /\ Len(Magic) # 6 =>
          /\ ldPc \in {"begin", "panicked"}
          /\ ldPc = "panicked" => panicked
          /\ \A f \in Fam : sock[f] = "none" /\ pc[f] = "idle" /\ filt[f] = <<>>

\* The real filter is installed for a marker whose two byte orders differ.
C13_Witness ==
    /\ Magic = <<0, 1, 255, 255, 1, 0>>
    /\ RealInstalled(4)

\* listenDisco has panicked on a marker of seven bytes.
C13_WitnessBadLength == Len(Magic) = 7 /\ ldPc = "panicked"


\* The callback invocations of family f that reached a counter.
Counted(f) ==
    { i \in 1..Len(cbLog[f]) : cbLog[f][i].outcome \in {"valid", "invalid"} }

\* C14: the IPv6 session is a permanent no-op. Whatever arrives and however
\* its drain ended, handleIPv6Disco has never been invoked, the only blocking
\* read of the IPv6 session that ever completes is a failed one, and every
\* count in the counters comes from an IPv4 callback, so the IPv6 session has
\* added nothing to any counter.
C14_IPv6NoOp ==
    /\ cbLog[6] = <<>>
    /\ reads[6].recv > 0 => (reads[6].recv = 1 /\ err[6] = "receiving packet")
    /\ metricRecvDiscoPacketIPv4 + metricRecvDiscoPacketInvalidIPv4
          = Cardinality(Counted(4))

\* The IPv6 session drained a frame, is receiving, and a well-formed marked
\* frame has arrived at its socket under the real filter.
C14_Witness ==
    /\ pc[6] = "recv" /\ nDrain[6] > 0
    /\ lastArr[6].phase = "real"
    /\ lastArr[6].pkt # <<>> /\ WellFormedMarked(lastArr[6].pkt, Magic)
    /\ lastArr[6].ret = RetReject


\* C15: once the socket of a session in the receive loop has been closed, the
\* session eventually returns with the error "receiving packet".
C15_CloseStopsSession ==
    \A f \in Fam :
        (pc[f] = "recv" /\ sock[f] = "closed")
            ~> (pc[f] = "returned" /\ err[f] = "receiving packet")


\* The positions a session can be at one step after position p.
PhaseSuccessors(p) ==
    CASE p = "idle"      -> {"idle", "applyZero"}
      [] p = "applyZero" -> {"applyZero", "drain", "returned"}
      [] p = "drain"     -> {"drain", "applyReal"}
      [] p = "applyReal" -> {"applyReal", "recv", "returned"}
      [] p = "recv"      -> {"recv", "returned"}
      [] p = "returned"  -> {"returned"}

ZeroOK == [which |-> "zero", ok |-> TRUE]
RealOK == [which |-> "real", ok |-> TRUE]

\* C17: within one session the socket operations are strictly ordered. A
\* session only moves forward, one phase at a time; the zero filter is
\* installed before the first drain read; no drain read follows the
\* real-filter install, which is preceded by at least one drain read; and a
\* blocking read only happens after the real filter is installed.
C17_StrictPhaseOrder ==
    /\ [][\A f \in Fam :
            /\ pc'[f] \in PhaseSuccessors(pc[f])
            /\ Len(applies[f]) = 2 => reads'[f].drain = reads[f].drain
            /\ reads'[f].drain # reads[f].drain => applies[f] = <<ZeroOK>>
            /\ reads'[f].recv # reads[f].recv => applies[f] = <<ZeroOK, RealOK>>]_vars
    /\ [](\A f \in Fam :
            /\ Len(applies[f]) <= 2
            /\ Len(applies[f]) >= 1 => applies[f][1].which = "zero"
            /\ Len(applies[f]) = 2 =>
                  /\ applies[f][1] = ZeroOK
                  /\ applies[f][2].which = "real"
                  /\ reads[f].drain >= 1
            /\ reads[f].drain > 0 => applies[f][1] = ZeroOK
            /\ pc[f] = "drain" => applies[f] = <<ZeroOK>>
            /\ pc[f] = "applyReal" => (applies[f] = <<ZeroOK>> /\ reads[f].drain >= 1)
            /\ pc[f] = "recv" => (applies[f] = <<ZeroOK, RealOK>> /\ reads[f].drain >= 1)
            /\ reads[f].recv > 0 => applies[f] = <<ZeroOK, RealOK>>)

\* The IPv4 session went through every phase: it drained a frame and has
\* completed a blocking read.
C17_Witness == pc[4] = "recv" /\ nDrain[4] > 0 /\ reads[4].recv > 0


\* C18: when the drain loop has ended and the real filter is about to be
\* installed, the socket's receive queue is empty; and the drain loop is left
\* only by a read that found nothing to read.
C18_DrainedQueueEmpty ==
    /\ [][\A f \in Fam :
            (pc[f] = "drain" /\ pc'[f] # "drain")
               => (queue[f] = <<>> /\ queue'[f] = <<>> /\ pc'[f] = "applyReal")]_vars
    /\ [](\A f \in Fam : pc[f] = "applyReal" => queue[f] = <<>>)

\* The IPv4 drain has ended after discarding a frame, and a frame that came
\* while the zero filter was attached was kept off the queue.
C18_Witness ==
    /\ pc[4] = "applyReal" /\ nDrain[4] > 0
    /\ lastArr[4].phase = "zero" /\ lastArr[4].pkt # <<>>


\* C19: the drain phase always terminates: a session in the drain loop
\* eventually leaves it for the real-filter install, whatever was queued
\* beforehand and whatever arrives later.
C19_DrainTerminates ==
    \A f \in Fam : (pc[f] = "drain") ~> (pc[f] = "applyReal")


\* C20: a failed non-blocking read in the drain phase is never reported as an
\* error: a drain read records no error and writes no log line, and a failed
\* one takes the session to the real-filter install. The error "receiving
\* packet" is only ever recorded by a session in the receive loop, where a
\* failed read stops the session with it.
C20_DrainFailureNotAnError ==
    /\ [][\A f \in Fam :
            /\ reads'[f].drain # reads[f].drain =>
                  /\ err[f] = "" /\ err'[f] = "" /\ logs' = logs
                  /\ pc'[f] = (IF DrainGotFrame(f) THEN "drain" ELSE "applyReal")
            /\ err'[f] # err[f] /\ err'[f] = "receiving packet" =>
                  /\ pc[f] = "recv" /\ pc'[f] = "returned"
                  /\ reads'[f].recv = reads[f].recv + 1]_vars
    /\ [](\A f \in Fam :
            err[f] = "receiving packet" =>
                (applies[f] = <<ZeroOK, RealOK>> /\ reads[f].recv > 0))

\* The IPv4 drain was ended by a failed read on a closed socket, after a frame
\* had been discarded, and the session goes on without an error.
C20_Witness ==
    /\ sock[4] = "closed" /\ pc[4] = "applyReal"
    /\ nDrain[4] > 0 /\ err[4] = "" /\ logs = {}


\* C21: while the zero filter is the program attached to a socket, the
\* program returns 0 for every frame that arrives, no step makes the socket's
\* receive queue longer, and nothing on a queue was put there under the zero
\* filter.
C21_ZeroFilterAcceptsNothing ==
    /\ [][\A f \in Fam :
            Phase(f) = "zero" =>
               /\ Len(queue'[f]) <= Len(queue[f])
               /\ lastArr'[f] # lastArr[f] => lastArr'[f].ret = RetReject]_vars
    /\ [](\A f \in Fam :
            /\ \A i \in 1..Len(queue[f]) : queue[f][i].phase # "zero"
            /\ lastArr[f].phase = "zero" => lastArr[f].ret = RetReject)

\* A well-formed marked frame arrived at the IPv4 socket under the zero
\* filter while an earlier frame was still waiting to be drained.
C21_Witness ==
    /\ pc[4] = "drain" /\ queue[4] # <<>>
    /\ lastArr[4].phase = "zero"
    /\ lastArr[4].pkt # <<>> /\ WellFormedMarked(lastArr[4].pkt, Magic)


\* C22: every frame on the queue of a session in the receive loop is
\* eventually handed to the callback, unless a read fails (the socket is
\* closed): whenever the frames handed over so far and the frames waiting
\* number n or more, eventually n frames have been handed over.
C22_QueuedFramesDelivered ==
    \A f \in Fam : \A n \in 1..MaxArrivals :
        (pc[f] = "recv" /\ sock[f] = "open" /\ Len(cbLog[f]) + Len(queue[f]) >= n)
            ~> (Len(cbLog[f]) >= n \/ sock[f] # "open")


\* C23: every program attached to a capture socket has at least two
\* instructions.
C23_AtLeastTwoInstructions ==
    \A f \in Fam : filt[f] # <<>> => Len(filt[f]) >= 2

\* C23, amended: every program attached to a capture socket has at least one
\* instruction and ends with a return; the zero filter and the IPv6 filter
\* are a single return 0, the IPv4 filter has 13 instructions.
C23_InstalledProgramShape ==
    \A f \in Fam :
        filt[f] # <<>> =>
            /\ Len(filt[f]) >= 1
            /\ filt[f][Len(filt[f])] = RetConstant(RetReject)
            /\ Phase(f) = "zero" => Len(filt[f]) = 1
            /\ (Phase(f) = "real" /\ f = 6) => Len(filt[f]) = 1
            /\ (Phase(f) = "real" /\ f = 4) => Len(filt[f]) = 13

\* The IPv4 socket carries its real filter, the IPv6 socket the zero filter.
C23_Witness == Phase(4) = "real" /\ Phase(6) = "zero"


\* The evaluation of prog on pkt written out: the 0-based indices of the
\* instructions executed, how it ended ("return", "load" for a load beyond
\* the end of the frame, "off" for running off the program) and the verdict.
RECURSIVE ExecPath(_, _, _, _, _, _)
ExecPath(prog, pkt, i, A, X, path) ==
    IF i >= Len(prog) THEN [path |-> path, end |-> "off", ret |-> RetReject]
    ELSE LET ins == prog[i + 1]
             p2 == Append(path, i)
             bad == [path |-> p2, end |-> "load", ret |-> RetReject]
         IN
         CASE ins.op = "LoadAbsolute" ->
                IF LoadOK(pkt, ins.Off, ins.Size)
                THEN ExecPath(prog, pkt, i + 1, LoadBE(pkt, ins.Off, ins.Size), X, p2)
                ELSE bad
           [] ins.op = "LoadIndirect" ->
                IF LoadOK(pkt, X + ins.Off, ins.Size)
                THEN ExecPath(prog, pkt, i + 1, LoadBE(pkt, X + ins.Off, ins.Size), X, p2)
                ELSE bad
           [] ins.op = "LoadMemShift" ->
                IF LoadOK(pkt, ins.Off, 1)
                THEN ExecPath(prog, pkt, i + 1, A, 4 * (pkt[ins.Off + 1] % 16), p2)
                ELSE bad
           [] ins.op = "JumpIf" ->
                IF JumpTaken(ins.Cond, A, ins.Val)
                THEN ExecPath(prog, pkt, i + 1 + ins.SkipTrue, A, X, p2)
                ELSE ExecPath(prog, pkt, i + 1 + ins.SkipFalse, A, X, p2)
           [] ins.op = "RetConstant" ->
                [path |-> p2, end |-> "return", ret |-> ins.Val]

\* Every jump of prog goes forward to an instruction of prog, every other
\* instruction but a return has a successor, and prog ends with a return.
JumpsStayInside(prog) ==
    /\ Len(prog) >= 1
    /\ prog[Len(prog)].op = "RetConstant"
    /\ \A k \in 1..Len(prog) :
          IF prog[k].op = "JumpIf"
          THEN /\ k + 1 + prog[k].SkipTrue <= Len(prog)
               /\ k + 1 + prog[k].SkipFalse <= Len(prog)
          ELSE prog[k].op = "RetConstant" \/ k + 1 <= Len(prog)

\* In the IPv4 program (1-based positions) the failing side of each of the
\* five comparisons lands on the last instruction, the return 0 at index 12,
\* and the other side falls through.
RejectBranchesLandOnLast(prog) ==
    /\ Len(prog) = 13
    /\ prog[12] = RetConstant(RetAccept)
    /\ prog[13] = RetConstant(RetReject)
    /\ {k \in 1..13 : prog[k].op = "JumpIf"} = {2, 4, 6, 9, 11}
    /\ \A k \in {2, 4, 9, 11} :
          prog[k].SkipTrue = 0 /\ k + 1 + prog[k].SkipFalse = 13
    /\ prog[6].SkipFalse = 0 /\ 6 + 1 + prog[6].SkipTrue = 13

StrictlyIncreasing(path) == \A k \in 1..(Len(path) - 1) : path[k] < path[k + 1]

SessionRunning(g) ==
    ~panicked /\ pc[g] \in {"applyZero", "drain", "applyReal", "recv"}

\* What belongs to family g's session and socket.
SessionState(g) ==
    <<pc[g], filt[g], applies[g], reads[g], nDrain[g], err[g], sockBuf[g],
      cbLog[g], sock[g], queue[g]>>

Forwarded == { i \in 1..Len(cbLog[4]) : cbLog[4][i].outcome \in {"valid", "invalid"} }

\* C26: for every frame accepted by the IPv4 filter, the payload that
\* handleIPv4Disco hands to handleDiscoMessage is at least 6 bytes long and
\* begins with the 6 marker bytes.
C26_ForwardedStartsWithMarker ==
    \A i \in Forwarded :
        /\ RunBPF(magicsockFilterV4(Magic), cbLog[4][i].pkt) = RetAccept
        /\ Len(cbLog[4][i].packetData) >= 6
        /\ SubSeq(cbLog[4][i].packetData, 1, 6) = Magic


\* The offsets (0-based, into the frame) of the header bytes handleIPv4Disco
\* reads: IPv4 byte 0, the source address, and bytes 0..1 and 4..5 of the UDP
\* header.
HeaderReads(pkt) ==
    LET ip == ethHeaderSize
        udp == ethHeaderSize + 4 * (pkt[ethHeaderSize + 1] % 16)
    IN {ip} \cup (ip + 12 .. ip + 15) \cup {udp, udp + 1, udp + 4, udp + 5}

ReadsWithinFrame(pkt) == \A off \in HeaderReads(pkt) : off < Len(pkt)

\* C27: for every frame accepted by the IPv4 filter and handed to
\* handleIPv4Disco, every header byte the decoder reads lies within the bytes
\* received for that frame.
C27_HeaderReadsInFrame ==
    \A i \in 1..Len(cbLog[4]) : ReadsWithinFrame(cbLog[4][i].pkt)

\* C27, amended: the same for every marker whose second byte is not 17, and
\* for the other markers on frames whose header-length nibble is not 0; a
\* frame with nibble 0 is accepted only if the marker's second byte is 17.
C27_HeaderReadsInFrameAmended ==
    \A i \in 1..Len(cbLog[4]) :
        LET pkt == cbLog[4][i].pkt IN
        /\ RunBPF(magicsockFilterV4(Magic), pkt) = RetAccept
        /\ (Magic[2] # ipprotoUDP \/ pkt[ethHeaderSize + 1] % 16 # 0)
              => ReadsWithinFrame(pkt)
        /\ pkt[ethHeaderSize + 1] % 16 = 0 => Magic[2] = ipprotoUDP

\* The decoder ran on an accepted frame with nibble 1 that ends with the
\* marker, under the marker disco.Magic.
C27_Witness ==
    /\ Magic = DiscoMagic
    /\ Len(cbLog[4]) = 1
    /\ cbLog[4][1].pkt[ethHeaderSize + 1] % 16 = 1
    /\ Len(cbLog[4][1].pkt) = ethHeaderSize + 4 + udpHeaderSize + 6


\* C28: for the declared UDP length dataLen of every frame handleIPv4Disco
\* has decoded, the payload slice's upper bound udpHeaderSize+dataLen, in
\* 16-bit unsigned arithmetic, has not wrapped around: it is the sum itself
\* and is not below the lower bound udpHeaderSize.
C28_PayloadBoundNoWrap ==
    \A i \in 1..Len(cbLog[4]) :
        LET dataLen == DeclaredUdpLen(cbLog[4][i].pkt) IN
        /\ PayloadEnd(dataLen) = udpHeaderSize + dataLen
        /\ PayloadEnd(dataLen) >= udpHeaderSize


\* C29: the callbacks return no error, so a receive loop ends with an error
\* return only through a failed socket read: a session that has returned
\* after entering the receive loop returned "receiving packet" on a socket
\* that was no longer open, its last read was the failed one, and every read
\* before it was handed to the callback, after which the loop went on; no
\* error other than the three of listenPacketsWithFilter is ever returned.
C29_OnlyReadFailureEndsLoop ==
    \A f \in Fam :
        /\ err[f] \in {"", "applying zero BPF filter", "applying real BPF filter",
                       "receiving packet"}
        /\ (pc[f] = "returned" /\ RealInstalled(f)) =>
              /\ err[f] = "receiving packet"
              /\ sock[f] # "open"
              /\ Len(cbLog[f]) = reads[f].recv - 1
        /\ pc[f] = "recv" => Len(cbLog[f]) = reads[f].recv

\* The IPv4 session went on after a callback that counted a frame invalid and
\* one that counted a frame valid, and returned only when a read failed.
C29_Witness ==
    /\ pc[4] = "returned" /\ err[4] = "receiving packet"
    /\ metricRecvDiscoPacketInvalidIPv4 = 1 /\ metricRecvDiscoPacketIPv4 = 1


\* The message passes the checks of routeEntryFromMsg.
PassesChecks(msg) ==
    /\ msg.isRouteMessage
    /\ msg.Version \in 3..5
    /\ msg.Type = "rmExpectedType"
    /\ Len(msg.Addrs) >= 1
    /\ "skipFlag" \notin msg.Flags

\* C30: for a route message that passes its checks, with any number of
\* addresses, routeEntryFromMsg does not fail with an out-of-range access,
\* and when the address list has no netmask entry (fewer than three
\* addresses) the destination is the bare address, or "invalid" when the
\* destination is no IP address.
C30_NoOutOfRange ==
    (rmsg.called /\ PassesChecks(rmsg.msg)) =>
        /\ ~rmsg.res.panic
        /\ rmsg.res.ok
        /\ Len(rmsg.msg.Addrs) <= RTAX_NETMASK =>
              rmsg.res.Dst.kind \in {"bare", "invalid"}

\* C31: routeEntryFromMsg returns (routeEntry{}, false) for every message
\* that is not a route message, has a version outside 3..5, a type other
\* than the expected one, an empty address list or a skip flag set, and
\* returns ok = true for every other message.
C31_RejectsExactlyTheListed ==
    rmsg.called =>
        IF PassesChecks(rmsg.msg)
        THEN ~rmsg.res.panic /\ rmsg.res.ok
        ELSE rmsg.res = NotARouteEntry

\* C32: once the session's onDone has run, the terminal is disposed, no
\* resize observer is observing, no beforeunload listener of runSSHSession
\* is on the window and the caller's onDone has been called, whether onDone
\* ran inside the call of ipn.ssh or after runSSHSession returned.
C32_CleanAfterDone ==
    ssh.done =>
        /\ ssh.termDisposed
        /\ ssh.resizeObserver # "observing"
        /\ ~ssh.listening
        /\ ssh.callerDone = 1

\* C33: a beforeunload event calls sshSession.close() while the session has
\* not signalled onDone, and does not call it once onDone has run.
C33_UnloadClosesOnlyBeforeDone ==
    [][ssh'.unloads # ssh.unloads =>
          ssh'.closeCalls = (IF ssh.done THEN ssh.closeCalls ELSE ssh.closeCalls + 1)]_vars

\* The interface's command exited with code 1 and printed nothing, or ran
\* and printed only white space.
SkippedInterface(r) ==
    \/ r.err = "exit1" /\ r.out = <<>>
    \/ r.err = "nil" /\ \A i \in 1..Len(r.out) : IsSpace(r.out[i])

\* The interface's command failed in another way, or ran and printed
\* something that is no IP address.
FailedInterface(r) ==
    /\ ~SkippedInterface(r)
    /\ r.err # "nil" \/ ~ParseIP(TrimSpace(r.out)).ok

\* The servers of the interfaces that are neither skipped nor failed.
RECURSIVE ServersOf(_)
ServersOf(results) ==
    IF results = <<>> THEN <<>>
    ELSE IF SkippedInterface(Head(results)) \/ FailedInterface(Head(results))
         THEN ServersOf(Tail(results))
         ELSE <<ParseIP(TrimSpace(Head(results).out)).ip>> \o ServersOf(Tail(results))

\* C34: DNSServers skips an interface whose command exits with code 1 and
\* no output or prints only white space; any other command failure or
\* unparsable output makes it return a nil list and the error, whatever it
\* had collected; otherwise it returns the servers in interface order.
C34_SkipOrFail ==
    (dns.called /\ ~dns.getListErr) =>
        IF \E i \in 1..Len(dns.results) : FailedInterface(dns.results[i])
        THEN dns.res.ret = <<>> /\ dns.res.err # ""
        ELSE dns.res.err = "" /\ dns.res.ret = ServersOf(dns.results)

\* A call in which the first interface gave a server and the second failed.
C34_Witness ==
    /\ dns.called
    /\ Len(dns.results) = 2
    /\ ServersOf(<<dns.results[1]>>) # <<>>
    /\ FailedInterface(dns.results[2])
    /\ dns.res.ret = <<>>
    /\ dns.res.err # ""

\* C35: with more than one argument runBugReport returns an error, makes no
\* BugReport call and prints nothing; when BugReport returns an error it
\* returns that error and prints nothing; otherwise it prints the returned
\* marker exactly once.
C35_PrintsMarkerOnce ==
    bug.called =>
        IF Len(bug.args) > 1
        THEN bug.res.ret # "" /\ bug.res.calls = <<>> /\ bug.res.printed = <<>>
        ELSE IF bug.rpc.err # ""
             THEN bug.res.ret = bug.rpc.err /\ bug.res.printed = <<>>
             ELSE bug.res.ret = "" /\ bug.res.printed = <<bug.rpc.marker>>

\* Calls with too many arguments, with a failing BugReport and with a
\* marker printed have all been seen; this state is one of the last kind.
C35_Witness ==
    /\ bug.called
    /\ Len(bug.args) = 1
    /\ bug.rpc.err = ""
    /\ bug.res.calls = <<[note |-> bug.args[1], doctor |-> bug.doctor]>>
    /\ bug.res.printed = <<bug.rpc.marker>>

\* The frames the IPv4 session has handed to handleIPv4Disco, in order.
SessionDecoded == [i \in 1..Len(cbLog[4]) |-> cbLog[4][i].pkt]

\* The tool and the session install the same programs and have drained the
\* same number of frames.
SameSocketSetup ==
    /\ bpftest_zeroFilter = zeroFilter
    /\ bpftest_magicsockFilter(Magic) = magicsockFilterV4(Magic)
    /\ ToolCaughtUp => tool.filt = filt[4] /\ tool.nDrain = nDrain[4]

\* C36: the capture tool and listenPacketsWithFilter with the IPv4 program
\* install the same zero filter, drain alike, install the same IPv4
\* program instruction for instruction, and, given the same arrivals and
\* the same results of their system calls, hand the same frames in the
\* same order to their decode step.
C36_ToolEquivalent ==
    /\ SameSocketSetup
    /\ ToolCaughtUp => tool.decoded = SessionDecoded

====
